---- MODULE Spec2Model ----
(***************************************************************************)
(* A model of the pyz80 Z80 core: the register file (registers.py), the    *)
(* memory bus (memorybus.py), the machine states and the decode table      *)
(* (machinestates.py) and the pipeline driver with its interrupt latch     *)
(* (cpu.py).  Every machine state is a Python generator; the model keeps   *)
(* the number of next() calls a state has served in its field n and runs   *)
(* the code between two yields as one step of the state.                   *)
(***************************************************************************)
EXTENDS Integers, Sequences, FiniteSets, TLC

(***************************************************************************)
(* Bounds of the model.                                                    *)
(***************************************************************************)
MaxClocks == 44
MaxPending == 2
MaxInterrupts == 2
MaxWrites == 1
MaxOps == 2
MaxTestClocks == 12

(***************************************************************************)
(* Python integer operators (unbounded, two's complement for negatives).   *)
(***************************************************************************)
RECURSIVE Pow2(_)
Pow2(k) == IF k <= 0 THEN 1 ELSE 2 * Pow2(k - 1)

Shl(a, k) == a * Pow2(k)

Shr(a, k) == a \div Pow2(k)

RECURSIVE BitAnd(_, _)
BitAnd(a, b) ==
    IF a = 0 \/ b = 0 THEN 0
    ELSE IF a = -1 THEN b
    ELSE IF b = -1 THEN a
    ELSE ((a % 2) * (b % 2)) + 2 * BitAnd(a \div 2, b \div 2)

RECURSIVE BitOr(_, _)
BitOr(a, b) ==
    IF a = 0 THEN b
    ELSE IF b = 0 THEN a
    ELSE IF a = -1 \/ b = -1 THEN -1
    ELSE (IF (a % 2) + (b % 2) > 0 THEN 1 ELSE 0) + 2 * BitOr(a \div 2, b \div 2)

RECURSIVE BitXor(_, _)
BitXor(a, b) ==
    IF a = 0 THEN b
    ELSE IF b = 0 THEN a
    ELSE IF a = -1 THEN (-b) - 1
    ELSE IF b = -1 THEN (-a) - 1
    ELSE (((a % 2) + (b % 2)) % 2) + 2 * BitXor(a \div 2, b \div 2)

low_after_high(x, y) == BitOr(Shl(y, 8), x)

high_after_low(x, y) == BitOr(Shl(x, 8), y)

(***************************************************************************)
(* registers.py: the register file.  Attributes are stored under their     *)
(* names; the pair and half views are computed by getattr and setattr.     *)
(***************************************************************************)
StoredRegisters ==
    {"A", "B", "C", "D", "E", "F", "H", "L", "I", "R", "IX", "IY", "SP", "PC",
     "_A", "_B", "_C", "_D", "_E", "_F", "_H", "_L"}

RegisterFile == [r \in StoredRegisters |-> 0]

PairNames == {"AF", "BC", "DE", "HL"}

HighNames == {"IXH", "IYH", "SPH", "PCH"}

LowNames == {"IXL", "IYL", "SPL", "PCL"}

(* the stored registers behind a pair, and behind a half of a 16 bit register *)
First(name) == CASE name = "AF" -> "A" [] name = "BC" -> "B" [] name = "DE" -> "D" [] name = "HL" -> "H"

Second(name) == CASE name = "AF" -> "F" [] name = "BC" -> "C" [] name = "DE" -> "E" [] name = "HL" -> "L"

Whole(name) ==
    CASE name \in {"IXH", "IXL"} -> "IX"
      [] name \in {"IYH", "IYL"} -> "IY"
      [] name \in {"SPH", "SPL"} -> "SP"
      [] name \in {"PCH", "PCL"} -> "PC"

getattr(reg, name) ==
    IF name \in PairNames THEN BitOr(Shl(reg[First(name)], 8), reg[Second(name)])
    ELSE IF name \in HighNames THEN Shr(reg[Whole(name)], 8)
    ELSE IF name \in LowNames THEN BitAnd(reg[Whole(name)], 255)
    ELSE reg[name]

(* a pair stored low byte first *)
setattr_low_first(reg, name, value) ==
    IF name \in PairNames
    THEN [reg EXCEPT ![First(name)] = BitAnd(value, 255), ![Second(name)] = BitAnd(Shr(value, 8), 255)]
    ELSE IF name \in HighNames
    THEN [reg EXCEPT ![Whole(name)] = Shl(Shr(reg[Whole(name)], 8), 8) + value]
    ELSE IF name \in LowNames
    THEN [reg EXCEPT ![Whole(name)] = BitAnd(reg[Whole(name)], 255) + Shl(value, 8)]
    ELSE [reg EXCEPT ![name] = value]

(* a half stored without the other half *)
setattr_losing_half(reg, name, value) ==
    IF name \in PairNames
    THEN [reg EXCEPT ![First(name)] = BitAnd(Shr(value, 8), 255), ![Second(name)] = BitAnd(value, 255)]
    ELSE IF name \in HighNames
    THEN [reg EXCEPT ![Whole(name)] = Shl(value, 8)]
    ELSE IF name \in LowNames
    THEN [reg EXCEPT ![Whole(name)] = value]
    ELSE [reg EXCEPT ![name] = value]

setattr(reg, name, value) ==
    IF name \in PairNames
    THEN [reg EXCEPT ![First(name)] = BitAnd(Shr(value, 8), 255), ![Second(name)] = BitAnd(value, 255)]
    ELSE IF name \in HighNames
    THEN [reg EXCEPT ![Whole(name)] = BitAnd(reg[Whole(name)], 255) + Shl(value, 8)]
    ELSE IF name \in LowNames
    THEN [reg EXCEPT ![Whole(name)] = Shl(Shr(reg[Whole(name)], 8), 8) + value]
    ELSE [reg EXCEPT ![name] = value]

FlagBit(name) ==
    CASE name = "S" -> 7
      [] name = "Z" -> 6
      [] name = "5" -> 5
      [] name = "H" -> 4
      [] name = "3" -> 3
      [] name = "P" -> 2
      [] name = "V" -> 2
      [] name = "N" -> 1
      [] name = "C" -> 0

getflag(reg, name) == BitAnd(Shr(reg["F"], FlagBit(name)), 1)

setflag(reg, name) == [reg EXCEPT !["F"] = BitOr(reg["F"], Shl(1, FlagBit(name)))]

(* the mask of the bit instead of its complement *)
resetflag_to_bit(reg, name) == [reg EXCEPT !["F"] = BitAnd(reg["F"], Shl(1, FlagBit(name)))]

resetflag(reg, name) == [reg EXCEPT !["F"] = BitAnd(reg["F"], 255 - Shl(1, FlagBit(name)))]

FlagNames == {"S", "Z", "5", "H", "3", "P", "V", "N", "C"}

ex(r) == [r EXCEPT !["A"] = r["_A"], !["F"] = r["_F"], !["_A"] = r["A"], !["_F"] = r["F"]]

(* the accumulator and the flags exchanged with the general registers *)
exx_with_AF(r) ==
    [r EXCEPT !["A"] = r["_A"], !["F"] = r["_F"], !["_A"] = r["A"], !["_F"] = r["F"],
              !["B"] = r["_B"], !["C"] = r["_C"], !["D"] = r["_D"], !["E"] = r["_E"],
              !["H"] = r["_H"], !["L"] = r["_L"], !["_B"] = r["B"], !["_C"] = r["C"],
              !["_D"] = r["D"], !["_E"] = r["E"], !["_H"] = r["H"], !["_L"] = r["L"]]

exx(r) ==
    [r EXCEPT !["B"] = r["_B"], !["C"] = r["_C"], !["D"] = r["_D"], !["E"] = r["_E"],
              !["H"] = r["_H"], !["L"] = r["_L"], !["_B"] = r["B"], !["_C"] = r["C"],
              !["_D"] = r["D"], !["_E"] = r["E"], !["_H"] = r["H"], !["_L"] = r["L"]]

(***************************************************************************)
(* memorybus.py: MemoryBus() with no mappings is one RAM of 64KB behind    *)
(* 256 pages.  The memory is kept as the bytes written so far; every       *)
(* other byte of the bytearray is 0.  An address whose page index is       *)
(* outside the page list raises IndexError.                                *)
(***************************************************************************)
MemSize == 65536

MemValid(address) == Shr(address, 8) >= -256 /\ Shr(address, 8) <= 255

MemRead(m, address) ==
    IF (address % MemSize) \in DOMAIN m THEN m[address % MemSize] ELSE 0

MemWrite(m, address, data) ==
    [a \in (DOMAIN m) \cup {address % MemSize} |->
        IF a = address % MemSize THEN BitAnd(data, 255) ELSE m[a]]

(***************************************************************************)
(* machinestates.py: the actions triggered at the end of machine states.   *)
(* An action is kept as a record naming the factory that built it and the  *)
(* factory's arguments; RunAction applies it as the closure _inner does.   *)
(* A callable passed as value= is named by a tag and evaluated by          *)
(* EvalValue.  The context c of an action holds the register file, the     *)
(* scratch map (kwargs) and the pipeline of the state it runs in, the      *)
(* memory, iff2 and the exception raised so far.                           *)
(***************************************************************************)
Act ==
    [op |-> "", reg |-> "", src |-> "", key |-> "", val |-> "", num |-> 0,
     flag |-> "", flags |-> <<>>, dest |-> "", body |-> <<>>]

JP == [Act EXCEPT !.op = "JP"]

JPvalue(v) == [Act EXCEPT !.op = "JP", !.val = "const", !.num = v]

JPkey(k) == [Act EXCEPT !.op = "JP", !.key = k]

JPsource(s) == [Act EXCEPT !.op = "JP", !.src = s]

JR == [Act EXCEPT !.op = "JR", !.key = "value"]

LDr(r) == [Act EXCEPT !.op = "LDr", !.reg = r, !.key = "value"]

LDrv(r, tag) == [Act EXCEPT !.op = "LDr", !.reg = r, !.key = "value", !.val = tag]

LDrs(r, s) == [Act EXCEPT !.op = "LDrs", !.reg = r, !.src = s]

RRr(n) == [Act EXCEPT !.op = "RRr", !.key = n]

RRrr(n, r) == [Act EXCEPT !.op = "RRr", !.key = n, !.reg = r]

RRrv(n, tag) == [Act EXCEPT !.op = "RRr", !.key = n, !.val = tag]

RRrc(n, v) == [Act EXCEPT !.op = "RRr", !.key = n, !.val = "const", !.num = v]

do_each(actions) == [Act EXCEPT !.op = "do_each", !.body = actions]

inc(r) == [Act EXCEPT !.op = "inc", !.reg = r]

dec(r) == [Act EXCEPT !.op = "dec", !.reg = r]

on_zero(r, action) == [Act EXCEPT !.op = "on_zero", !.reg = r, !.body = <<action>>]

on_flag(f, action) == [Act EXCEPT !.op = "on_flag", !.flag = f, !.body = <<action>>]

unless_flag(f, action) == [Act EXCEPT !.op = "unless_flag", !.flag = f, !.body = <<action>>]

on_condition(tag, action) == [Act EXCEPT !.op = "on_condition", !.val = tag, !.body = <<action>>]

clear_flag(f) == [Act EXCEPT !.op = "clear_flag", !.flag = f]

early_abort == [Act EXCEPT !.op = "early_abort"]

set_flags(mask, tag) == [Act EXCEPT !.op = "set_flags", !.flags = mask, !.key = "value", !.val = tag]

force_flag(f, tag) == [Act EXCEPT !.op = "force_flag", !.flag = f, !.val = tag]

daa == [Act EXCEPT !.op = "daa"]

(* the rotates, the shifts and BIT of the CB page on a register: the       *)
(* lambda is named by the factory and the register it reads                *)
Rotated(name, r) ==
    [set_flags(<<"-", "-", "5", "0", "3", "-", "0", "C">>, name \o " " \o r) EXCEPT !.dest = r]

RLC(r) == Rotated("RLC", r)

RL(r) == Rotated("RL", r)

RRC(r) == Rotated("RRC", r)

RR(r) == Rotated("RR", r)

SLA(r) == Rotated("SLA", r)

SRA(r) == Rotated("SRA", r)

SL1(r) == Rotated("SL1", r)

SRL(r) == Rotated("SRL", r)

BIT(n, r) == set_flags(<<"S", "Z", "5", "1", "3", "P", "0", "-">>, "BIT " \o ToString(n) \o " " \o r)

NameLen(r) == IF r \in {"AF", "BC", "DE", "HL", "IX", "IY", "SP", "PC"} THEN 2
              ELSE IF r \in {"IXH", "IXL", "IYH", "IYL", "SPH", "SPL", "PCH", "PCL"} THEN 3
              ELSE 1

SetKw(kw, k, v) == (k :> v) @@ kw

(* the lambdas of the decode table, by the entry that holds them *)
Operands == {"A", "B", "C", "D", "E", "H", "L"}

Tagged(tag, name) == \E r \in Operands : tag = name \o " " \o r

TagValue(tag, name, reg) == reg[CHOOSE r \in Operands : tag = name \o " " \o r]

TagBit(tag) == CHOOSE n \in 0..7 : Tagged(tag, "BIT " \o ToString(n))

HalfCarry(x) == IF x > 15 THEN 1 ELSE 0

HalfBorrow(x) == IF x < 0 THEN 1 ELSE 0

EvalArithmetic(tag, reg) ==
    CASE Tagged(tag, "ADD")   -> reg["A"] + TagValue(tag, "ADD", reg)
      [] Tagged(tag, "ADC")   -> reg["A"] + TagValue(tag, "ADC", reg) + getflag(reg, "C")
      [] Tagged(tag, "SUB")   -> reg["A"] - TagValue(tag, "SUB", reg)
      [] Tagged(tag, "SBC")   -> reg["A"] - TagValue(tag, "SBC", reg) - getflag(reg, "C")
      [] Tagged(tag, "CP")    -> reg["A"] - TagValue(tag, "CP", reg)
      [] Tagged(tag, "INC")   -> TagValue(tag, "INC", reg) + 1
      [] Tagged(tag, "DEC")   -> TagValue(tag, "DEC", reg) - 1
      [] Tagged(tag, "AND")   -> BitAnd(reg["A"], TagValue(tag, "AND", reg))
      [] Tagged(tag, "XOR")   -> BitXor(reg["A"], TagValue(tag, "XOR", reg))
      [] Tagged(tag, "OR")    -> BitOr(reg["A"], TagValue(tag, "OR", reg))
      [] Tagged(tag, "H ADD") ->
            HalfCarry(BitAnd(reg["A"], 15) + BitAnd(TagValue(tag, "H ADD", reg), 15))
      [] Tagged(tag, "H ADC") ->
            HalfCarry(BitAnd(reg["A"], 15) + BitAnd(TagValue(tag, "H ADC", reg), 15)
                      + getflag(reg, "C"))
      [] Tagged(tag, "H SUB") ->
            HalfBorrow(BitAnd(reg["A"], 15) - BitAnd(TagValue(tag, "H SUB", reg), 15))
      [] Tagged(tag, "H SBC") ->
            HalfBorrow(BitAnd(reg["A"], 15) - BitAnd(TagValue(tag, "H SBC", reg), 15)
                       - getflag(reg, "C"))
      [] Tagged(tag, "H INC") -> HalfCarry(BitAnd(TagValue(tag, "H INC", reg), 15) + 1)
      [] Tagged(tag, "H DEC") -> HalfBorrow(BitAnd(TagValue(tag, "H DEC", reg), 15) - 1)

EvalRotate(tag, reg) ==
    CASE Tagged(tag, "RLC") ->
            BitOr(Shl(TagValue(tag, "RLC", reg), 1), Shr(TagValue(tag, "RLC", reg), 7))
      [] Tagged(tag, "RL")  -> BitOr(Shl(TagValue(tag, "RL", reg), 1), getflag(reg, "C"))
      [] Tagged(tag, "RRC") ->
            BitOr(BitOr(Shr(TagValue(tag, "RRC", reg), 1),
                        Shl(BitAnd(TagValue(tag, "RRC", reg), 1), 7)),
                  Shl(BitAnd(TagValue(tag, "RRC", reg), 1), 8))
      [] Tagged(tag, "RR")  ->
            BitOr(BitOr(Shr(TagValue(tag, "RR", reg), 1), Shl(getflag(reg, "C"), 7)),
                  Shl(BitAnd(TagValue(tag, "RR", reg), 1), 8))
      [] Tagged(tag, "SLA") -> Shl(TagValue(tag, "SLA", reg), 1)
      [] Tagged(tag, "SRA") ->
            BitOr(BitOr(Shr(TagValue(tag, "SRA", reg), 1), BitAnd(TagValue(tag, "SRA", reg), 128)),
                  Shl(BitAnd(TagValue(tag, "SRA", reg), 1), 8))
      [] Tagged(tag, "SL1") -> BitOr(Shl(TagValue(tag, "SL1", reg), 1), 1)
      [] Tagged(tag, "SRL") ->
            BitOr(Shr(TagValue(tag, "SRL", reg), 1), Shl(BitAnd(TagValue(tag, "SRL", reg), 1), 8))
      [] OTHER ->
            BitAnd(TagValue(tag, "BIT " \o ToString(TagBit(tag)), reg), Shl(1, TagBit(tag)))

EvalValue(tag, c, args) ==
    CASE tag = "INC BC"    -> BitAnd(getattr(c.reg, "BC") + 1, 65535)
      [] tag = "DJNZ B"    -> BitAnd(c.reg["B"] - 1, 255)
      [] tag = "LDI flags" -> c.kwargs["value"] + c.reg["A"]
      [] tag = "NEG"       -> BitAnd(-c.reg["A"], 255)
      [] tag = "CPL"       -> BitAnd((-c.reg["A"]) - 1, 255)
      [] tag = "SCF"       -> BitOr(BitOr(BitAnd(c.reg["F"], 196), BitAnd(c.reg["A"], 40)), 1)
      [] tag = "CCF"       -> BitOr(BitAnd(c.reg["F"], 236), BitAnd((-c.reg["F"]) - 1, 17))
      [] \E name \in {"ADD", "ADC", "SUB", "SBC", "CP", "INC", "DEC", "AND", "XOR", "OR",
                       "H ADD", "H ADC", "H SUB", "H SBC", "H INC", "H DEC"} : Tagged(tag, name)
                           -> EvalArithmetic(tag, c.reg)
      [] OTHER             -> EvalRotate(tag, c.reg)

EvalCondition(tag, c, args) ==
    CASE tag = "DJNZ B==0" -> c.reg["B"] = 0

(* the kwargs keys a lambda reads: a missing key raises KeyError *)
ValueNeeds(tag) == IF tag = "LDI flags" THEN {"value"} ELSE {}

Raise(c, e) == [c EXCEPT !.exc = e]

(* early_abort: while len(state.pipeline) > 1: state.pipeline.pop() *)
AbortNothing(pl) == pl

AbortPipeline(pl) == IF Len(pl) > 1 THEN <<pl[1]>> ELSE pl

(* the bit of the 8-character mask at index i (0-based, as in the code) *)
Mask(flags, i) == flags[i + 1]

PutFlag(reg, name, bit) == IF bit = 1 THEN setflag(reg, name) ELSE resetflag(reg, name)

(* the low bit of the byte taken for its parity *)
ParityOfLowBit(p) == BitAnd(p, 1)

RECURSIVE ParityFold(_)
ParityFold(p) == IF p > 1 THEN ParityFold(BitXor(BitAnd(p, 1), Shr(p, 1))) ELSE p

RECURSIVE ForceBits(_, _, _)
ForceBits(F, flags, n) ==
    IF n >= 7 THEN F
    ELSE ForceBits(IF Mask(flags, 7 - n) = "1" THEN BitOr(F, Shl(1, n))
                   ELSE IF Mask(flags, 7 - n) = "0" THEN BitAnd(F, 255 - Shl(1, n))
                   ELSE F, flags, n + 1)

(* the flags of set_flags in the order the code sets them; d is DD & 0xFF *)
FlagS(reg, flags, d) ==
    IF Mask(flags, 0) = "S" THEN PutFlag(reg, "S", BitAnd(Shr(d, 7), 1)) ELSE reg

FlagZKept(reg, flags, d) == reg

FlagZ(reg, flags, d) ==
    IF Mask(flags, 1) = "Z" THEN PutFlag(reg, "Z", IF d = 0 THEN 1 ELSE 0) ELSE reg

Flag5(reg, flags, d) ==
    IF Mask(flags, 2) = "5" THEN PutFlag(reg, "5", BitAnd(Shr(d, 5), 1)) ELSE reg

Flag3(reg, flags, d) ==
    IF Mask(flags, 4) = "3" THEN PutFlag(reg, "3", BitAnd(Shr(d, 3), 1)) ELSE reg

FlagPV(reg, flags, DD, iff2v) ==
    IF Mask(flags, 5) = "*" THEN PutFlag(reg, "P", IF iff2v = 1 THEN 1 ELSE 0)
    ELSE IF Mask(flags, 5) = "V" THEN PutFlag(reg, "V", IF DD > 127 \/ DD < -128 THEN 1 ELSE 0)
    ELSE IF Mask(flags, 5) = "P"
         THEN PutFlag(reg, "P", IF ParityFold(BitAnd(DD, 255)) = 0 THEN 1 ELSE 0)
    ELSE reg

FlagC(reg, flags, DD) ==
    IF Mask(flags, 7) = "C" THEN PutFlag(reg, "C", IF DD > 255 \/ DD < 0 THEN 1 ELSE 0) ELSE reg

Forced(reg, flags) == [reg EXCEPT !["F"] = ForceBits(reg["F"], flags, 0)]

SetFlagsReg(reg, flags, DD, iff2v) ==
    Forced(FlagC(FlagPV(Flag3(Flag5(FlagZ(FlagS(reg, flags, BitAnd(DD, 255)),
                                          flags, BitAnd(DD, 255)),
                                    flags, BitAnd(DD, 255)),
                              flags, BitAnd(DD, 255)),
                        flags, DD, iff2v),
                 flags, DD),
           flags)

(* an operand an action looked up: its value, or the exception the lookup raised *)
Got(v) == [exc |-> "none", v |-> v]

Missing(e) == [exc |-> e, v |-> 0]

FromKwargs(kw, k) == IF k \in DOMAIN kw THEN Got(kw[k]) ELSE Missing("KeyError")

JPTarget(a, c, args) ==
    IF a.val = "const" THEN Got(a.num)
    ELSE IF a.val # "" THEN Got(EvalValue(a.val, c, <<>>))
    ELSE IF a.src # "" THEN Got(getattr(c.reg, a.src))
    ELSE IF a.key # "" THEN FromKwargs(c.kwargs, a.key)
    ELSE IF Len(args) > 0 THEN Got(args[1])
    ELSE FromKwargs(c.kwargs, "value")

JROffset(a, c, args) ==
    IF a.val = "const" THEN Got(a.num)
    ELSE IF a.val # "" THEN Got(EvalValue(a.val, c, <<>>))
    ELSE IF Len(args) > 0 THEN Got(args[1])
    ELSE FromKwargs(c.kwargs, a.key)

LDrValue(a, c, args) ==
    IF a.val = "const" THEN Got(a.num)
    ELSE IF a.val # ""
         THEN IF ValueNeeds(a.val) \subseteq DOMAIN c.kwargs
              THEN Got(EvalValue(a.val, c, args)) ELSE Missing("KeyError")
    ELSE IF Len(args) > 0 THEN Got(args[1])
    ELSE FromKwargs(c.kwargs, a.key)

RRrValue(a, c, args) ==
    IF a.reg # "" THEN Got(getattr(c.reg, a.reg))
    ELSE IF a.val = "const" THEN Got(a.num)
    ELSE IF a.val # ""
         THEN IF ValueNeeds(a.val) \subseteq DOMAIN c.kwargs
              THEN Got(EvalValue(a.val, c, args)) ELSE Missing("KeyError")
    ELSE IF Len(args) > 0 THEN Got(args[1])
    ELSE Missing("Exception")

FlagsOperand(a, c, args) ==
    IF a.val = "const" THEN Got(a.num)
    ELSE IF a.val # ""
         THEN IF ValueNeeds(a.val) \subseteq DOMAIN c.kwargs
              THEN Got(EvalValue(a.val, c, args)) ELSE Missing("KeyError")
    ELSE IF a.src # "" THEN Got(getattr(c.reg, a.src))
    ELSE IF Len(args) > 0 THEN Got(args[1])
    ELSE FromKwargs(c.kwargs, a.key)

(* inc and dec wrap at 16 bits for a two letter name and at 8 bits otherwise *)
WrapMask(r) == IF NameLen(r) % 2 = 0 THEN 65535 ELSE 255

(* the register an action assigns and the value it assigns *)
Target(a) == IF a.op \in {"JP", "JR"} THEN "PC" ELSE a.reg

Shifted(t, base) == [t EXCEPT !.v = base + @]

NewValue(a, c, args) ==
    CASE a.op = "JP"   -> JPTarget(a, c, args)
      [] a.op = "JR"   -> Shifted(JROffset(a, c, args), c.reg["PC"])
      [] a.op = "LDr"  -> LDrValue(a, c, args)
      [] a.op = "LDrs" -> Got(getattr(c.reg, a.src))
      [] a.op = "inc"  -> Got(BitAnd(getattr(c.reg, a.reg) + 1, WrapMask(a.reg)))
      [] a.op = "dec"  -> Got(BitAnd(WrapMask(a.reg) + getattr(c.reg, a.reg), WrapMask(a.reg)))

Assign(c, name, t) ==
    IF t.exc # "none" THEN Raise(c, t.exc) ELSE [c EXCEPT !.reg = setattr(c.reg, name, t.v)]

Keep(c, k, t) ==
    IF t.exc # "none" THEN Raise(c, t.exc) ELSE [c EXCEPT !.kwargs = SetKw(c.kwargs, k, t.v)]

Dest(reg, dest, v) == IF dest # "" THEN setattr(reg, dest, v) ELSE reg

RunSetFlags(a, c, t) ==
    IF t.exc # "none" THEN Raise(c, t.exc)
    ELSE [c EXCEPT !.reg = Dest(SetFlagsReg(c.reg, a.flags, t.v, c.iff2), a.dest, BitAnd(t.v, 255)),
                   !.kwargs = IF a.key # "" THEN SetKw(c.kwargs, a.key, BitAnd(t.v, 255)) ELSE c.kwargs]

(* daa(): A after the two adjustments and before A &= 0xFF; C, H and N are *)
(* bits 0, 4 and 1 of F                                                    *)
DaaLow(A, H, N) ==
    IF BitAnd(A, 15) > 9 \/ H # 0 THEN (IF N = 0 THEN A + 6 ELSE A - 6) ELSE A

DaaCarry(A, C, H, N) == Shr(DaaLow(A, H, N), 4) > 9 \/ C # 0

DaaAdjusted(A, C, H, N) ==
    IF DaaCarry(A, C, H, N)
    THEN (IF N = 0 THEN DaaLow(A, H, N) + 96 ELSE DaaLow(A, H, N) - 96)
    ELSE DaaLow(A, H, N)

DaaFlags(A, carry, N) ==
    BitOr(BitOr(BitOr(IF carry THEN 1 ELSE 0, Shl(N, 1)), BitAnd(A, 168)),
          IF A = 0 THEN 64 ELSE 0)

RunDaa(reg, C, H, N) ==
    setattr(setattr(reg, "A", BitAnd(DaaAdjusted(reg["A"], C, H, N), 255)),
            "F", DaaFlags(BitAnd(DaaAdjusted(reg["A"], C, H, N), 255),
                          DaaCarry(reg["A"], C, H, N), N))

(* the test of a conditional action *)
Holds(a, c, args) ==
    CASE a.op = "on_zero"      -> getattr(c.reg, a.reg) = 0
      [] a.op = "on_flag"      -> getflag(c.reg, a.flag) = 1
      [] a.op = "unless_flag"  -> getflag(c.reg, a.flag) = 0
      [] a.op = "on_condition" -> EvalCondition(a.val, c, args)

RECURSIVE RunAction(_, _, _)
RECURSIVE RunEach(_, _, _)
RunEach(actions, c, args) ==
    IF actions = <<>> \/ c.exc # "none" THEN c
    ELSE RunEach(Tail(actions), RunAction(Head(actions), c, args), args)

RunAction(a, c, args) ==
    IF c.exc # "none" THEN c
    ELSE IF a.op \in {"JP", "JR", "LDr", "LDrs", "inc", "dec"}
         THEN Assign(c, Target(a), NewValue(a, c, args))
    ELSE IF a.op = "RRr" THEN Keep(c, a.key, RRrValue(a, c, args))
    ELSE IF a.op = "set_flags" THEN RunSetFlags(a, c, FlagsOperand(a, c, args))
    ELSE IF a.op = "clear_flag" THEN [c EXCEPT !.reg = resetflag(c.reg, a.flag)]
    ELSE IF a.op = "force_flag"
         THEN [c EXCEPT !.reg = PutFlag(c.reg, a.flag, IF EvalValue(a.val, c, args) = 0 THEN 0 ELSE 1)]
    ELSE IF a.op = "daa"
         THEN [c EXCEPT !.reg = RunDaa(c.reg, BitAnd(c.reg["F"], 1), BitAnd(Shr(c.reg["F"], 4), 1),
                                       BitAnd(Shr(c.reg["F"], 1), 1))]
    ELSE IF a.op = "early_abort" THEN [c EXCEPT !.pipeline = AbortPipeline(c.pipeline)]
    ELSE IF a.op = "do_each" \/ Holds(a, c, args) THEN RunEach(a.body, c, args)
    ELSE c

(***************************************************************************)
(* machinestates.py: the machine states.  A state is a record of the       *)
(* parameters its factory closed over, the locals of its generator         *)
(* (lPC, lD, laddress, lvalue, inst), the number n of next() calls served  *)
(* and whether the generator died of an exception (dead).  An optional     *)
(* parameter is a sequence of length 0 (None) or 1.                        *)
(***************************************************************************)
MachineState ==
    [kind |-> "MachineState", n |-> 0, dead |-> FALSE,
     prefix |-> <<>>, given |-> <<>>, compound |-> FALSE, action |-> <<>>, key |-> "value",
     signed |-> FALSE, address |-> <<>>, indirect |-> "", incaddr |-> TRUE,
     value |-> <<>>, source |-> "", extra |-> 0, ticks |-> 0, locked |-> FALSE,
     transform |-> <<>>,
     lPC |-> 0, lD |-> 0, laddress |-> 0, lvalue |-> 0, inst |-> <<>>,
     kwargs |-> <<>>]

OCF == [MachineState EXCEPT !.kind = "OCF"]

OCFp(prefix) == [MachineState EXCEPT !.kind = "OCF", !.prefix = prefix]

OD == [MachineState EXCEPT !.kind = "OD", !.compound = TRUE]

ODa(action) == [OD EXCEPT !.action = <<action>>]

MR == [MachineState EXCEPT !.kind = "MR", !.compound = TRUE]

MRi(indirect) == [MR EXCEPT !.indirect = indirect]

MW == [MachineState EXCEPT !.kind = "MW"]

SR == [MachineState EXCEPT !.kind = "SR", !.compound = TRUE]

SRa(action) == [SR EXCEPT !.action = <<action>>]

SW == [MachineState EXCEPT !.kind = "SW"]

SWs(source) == [SW EXCEPT !.source = source]

SWk(key) == [SW EXCEPT !.key = key]

IO(ticks, locked) == [MachineState EXCEPT !.kind = "IO", !.ticks = ticks, !.locked = locked]

IOa(ticks, locked, action) == [IO(ticks, locked) EXCEPT !.action = <<action>>]

(* the fetchlocked method of each state class; the first version lacks SW's override *)
fetchlockedWithoutSW(st) ==
    IF st.kind = "IO" THEN st.locked
    ELSE st.kind \in {"OCF", "OD", "MR", "MW", "SR"}

fetchlocked(st) ==
    IF st.kind = "IO" THEN st.locked
    ELSE st.kind \in {"OCF", "OD", "MR", "MW", "SR", "SW"}

(***************************************************************************)
(* The decode table, restricted to the entries the model executes.  A key  *)
(* is the sequence of the prefix bytes and the opcode byte.                *)
(***************************************************************************)
Entry(extra, actions, states) == [extra |-> extra, actions |-> actions, states |-> states]

(* the transforms of the table: transform={key : add_register(r)} and {key : subfrom()} *)
add_register(key, r) == [key |-> key, fn |-> "add_register", reg |-> r]

subfrom(key, r) == [key |-> key, fn |-> "subfrom", reg |-> r]

(* the states the block instructions share: the MW of LDI, LDD, LDIR and   *)
(* LDDR, the IO of CPI, CPD, CPIR and CPDR, and the IO that sets PC back   *)
(* by 2; step is what the entry does to HL and DE and stop is what ends a  *)
(* repeating form                                                          *)
BlockMW(step, stop) ==
    [MW EXCEPT !.indirect = "DE", !.extra = 2,
               !.action = <<do_each(<<set_flags(<<"-", "-", "5", "0", "3", "1", "0", "-">>, "LDI flags")>>
                                    \o step
                                    \o <<dec("BC"), on_zero("BC", clear_flag("V"))>>
                                    \o stop)>>]

BlockIO(step, stop) ==
    [IO(5, TRUE) EXCEPT !.transform = <<subfrom("value", "A")>>,
                        !.action = <<do_each(<<set_flags(<<"-", "Z", "5", "0", "3", "1", "1", "-">>, ""),
                                               step, dec("BC"), on_zero("BC", clear_flag("V"))>>
                                             \o stop)>>]

RepeatInFour == IOa(4, TRUE, do_each(<<dec("PC"), dec("PC")>>))

RepeatByOne == IOa(5, TRUE, do_each(<<dec("PC")>>))

Repeat == IOa(5, TRUE, do_each(<<dec("PC"), dec("PC")>>))

(* the register an opcode names in its low three bits (6 is (HL)) *)
Register(i) == <<"B", "C", "D", "E", "H", "L", "(HL)", "A">>[i + 1]

(* the mask of an entry as the table writes it: its fourth letter is H or - *)
Flags(letters, h) == [letters EXCEPT ![4] = IF @ = "H" THEN h ELSE @]

Arithmetic(name, r, flags) ==
    <<force_flag("H", "H " \o name \o " " \o r), set_flags(flags, name \o " " \o r),
      LDr(IF name \in {"INC", "DEC"} THEN r ELSE "A")>>

Logical(name, r, flags) == <<set_flags(flags, name \o " " \o r), LDr("A")>>

(* INC r and DEC r (0x04 .. 0x3D) and the accumulator group 0x80 .. 0xBF on a register *)
ArithmeticActions(k) ==
    CASE k < 64 /\ k % 8 = 4 ->
            Arithmetic("INC", Register(k \div 8), <<"S", "Z", "5", "-", "3", "V", "0", "-">>)
      [] k < 64 /\ k % 8 = 5 ->
            Arithmetic("DEC", Register(k \div 8),
                       Flags(<<"S", "Z", "5", "H", "3", "V", "1", "-">>, IF k = 5 THEN "-" ELSE "H"))
      [] k \in 128..135 ->
            Arithmetic("ADD", Register(k % 8),
                       Flags(<<"S", "Z", "5", "H", "3", "V", "0", "C">>, IF k = 128 THEN "-" ELSE "H"))
      [] k \in 136..143 ->
            Arithmetic("ADC", Register(k % 8), <<"S", "Z", "5", "H", "3", "V", "0", "C">>)
      [] k \in 144..151 ->
            Arithmetic("SUB", Register(k % 8), <<"S", "Z", "5", "H", "3", "V", "1", "C">>)
      [] k \in 152..159 ->
            Arithmetic("SBC", Register(k % 8), <<"S", "Z", "5", "H", "3", "V", "1", "C">>)
      [] k \in 160..167 ->
            Logical("AND", Register(k % 8), <<"S", "Z", "5", "1", "3", "P", "0", "0">>)
      [] k \in 168..175 ->
            Logical("XOR", Register(k % 8), <<"S", "Z", "5", "0", "3", "P", "0", "0">>)
      [] k \in 176..183 ->
            Logical("OR", Register(k % 8), <<"S", "Z", "5", "0", "3", "P", "0", "0">>)
      [] k \in 184..191 ->
            <<set_flags(<<"S", "Z", "5", "H", "3", "V", "1", "C">>, "CP " \o Register(k % 8))>>

ArithmeticKeys ==
    {k \in 0..63 : k % 8 \in {4, 5} /\ k \div 8 # 6} \cup {k \in 128..191 : k % 8 # 6}

ArithmeticStates == [key \in {<<k>> : k \in ArithmeticKeys} |-> Entry(0, ArithmeticActions(key[1]), <<>>)]

(* the CB page on a register: (0xCB, 0x00 .. 0x3F) rotate and shift, (0xCB, 0x40 .. 0x7F) BIT *)
CBAction(k) ==
    CASE k \in 0..7   -> RLC(Register(k % 8))
      [] k \in 8..15  -> RRC(Register(k % 8))
      [] k \in 16..23 -> RL(Register(k % 8))
      [] k \in 24..31 -> RR(Register(k % 8))
      [] k \in 32..39 -> SLA(Register(k % 8))
      [] k \in 40..47 -> SRA(Register(k % 8))
      [] k \in 48..55 -> SL1(Register(k % 8))
      [] k \in 56..63 -> SRL(Register(k % 8))
      [] k \in 64..127 -> BIT((k - 64) \div 8, Register(k % 8))

CBStates ==
    [key \in {<<203, k>> : k \in {x \in 0..127 : x % 8 # 6}} |-> Entry(0, <<CBAction(key[2])>>, <<>>)]

INSTRUCTION_STATES ==
    (<<0>>   :> Entry(0, <<>>, <<>>))
 @@ (<<1>>   :> Entry(0, <<>>, <<OD, ODa(LDr("BC"))>>))
 @@ (<<3>>   :> Entry(0, <<LDrv("BC", "INC BC")>>, <<>>))
 @@ (<<16>>  :> Entry(1, <<>>, <<ODa(do_each(<<LDrv("B", "DJNZ B"),
                                                on_condition("DJNZ B==0", early_abort),
                                                RRr("value")>>)),
                                 IOa(5, TRUE, JR)>>))
 @@ (<<24>>  :> Entry(0, <<>>, <<[OD EXCEPT !.signed = TRUE], IOa(5, TRUE, JR)>>))
 @@ (<<32>>  :> Entry(0, <<>>, <<[ODa(do_each(<<RRr("value"), on_flag("Z", early_abort)>>))
                                     EXCEPT !.signed = TRUE],
                                 IOa(5, TRUE, JR)>>))
 @@ (<<40>>  :> Entry(0, <<>>, <<[ODa(do_each(<<RRr("value"), unless_flag("Z", early_abort)>>))
                                     EXCEPT !.signed = TRUE],
                                 IOa(5, TRUE, JR)>>))
 @@ (<<39>>  :> Entry(0, <<daa>>, <<>>))
 @@ (<<47>>  :> Entry(0, <<[set_flags(<<"-", "-", "*", "1", "*", "-", "1", "-">>, "") EXCEPT !.src = "A"],
                           LDrv("A", "CPL")>>, <<>>))
 @@ (<<49>>  :> Entry(0, <<>>, <<OD, ODa(LDr("SP"))>>))
 @@ (<<55>>  :> Entry(0, <<LDrv("F", "SCF")>>, <<>>))
 @@ (<<63>>  :> Entry(0, <<LDrv("F", "CCF")>>, <<>>))
 @@ (<<192>> :> Entry(1, <<on_flag("Z", early_abort)>>, <<SR, SRa(JP)>>))
 @@ (<<193>> :> Entry(0, <<>>, <<SR, SRa(LDr("BC"))>>))
 @@ (<<194>> :> Entry(0, <<>>, <<OD, ODa(unless_flag("Z", JP))>>))
 @@ (<<195>> :> Entry(0, <<>>, <<OD, ODa(JP)>>))
 @@ (<<196>> :> Entry(0, <<>>, <<OD, ODa(do_each(<<RRr("target"), on_flag("Z", early_abort)>>)),
                                 SWs("PCH"), [SWs("PCL") EXCEPT !.action = <<JPkey("target")>>]>>))
 @@ (<<197>> :> Entry(1, <<>>, <<SWs("B"), SWs("C")>>))
 @@ (<<200>> :> Entry(1, <<unless_flag("Z", early_abort)>>, <<SR, SRa(JP)>>))
 @@ (<<201>> :> Entry(0, <<>>, <<SR, SRa(JP)>>))
 @@ (<<202>> :> Entry(0, <<>>, <<OD, ODa(on_flag("Z", JP))>>))
 @@ (<<204>> :> Entry(0, <<>>, <<OD, ODa(do_each(<<RRr("target"), unless_flag("Z", early_abort)>>)),
                                 SWs("PCH"), [SWs("PCL") EXCEPT !.action = <<JPkey("target")>>]>>))
 @@ (<<205>> :> Entry(0, <<>>, <<OD, ODa(RRr("target")),
                                 SWs("PCH"), [SWs("PCL") EXCEPT !.action = <<JPkey("target")>>]>>))
 @@ (<<209>> :> Entry(0, <<>>, <<SR, SRa(LDr("DE"))>>))
 @@ (<<213>> :> Entry(1, <<>>, <<SWs("D"), SWs("E")>>))
 @@ (<<221>> :> Entry(0, <<>>, <<OCFp(<<221>>)>>))
 @@ (<<225>> :> Entry(0, <<>>, <<SR, SRa(LDr("HL"))>>))
 @@ (<<227>> :> Entry(0, <<RRrr("H", "H"), RRrr("L", "L")>>,
                      <<SR, [SRa(LDr("HL")) EXCEPT !.extra = 1],
                        SWk("H"), [SWk("L") EXCEPT !.extra = 2]>>))
 @@ (<<229>> :> Entry(1, <<>>, <<SWs("H"), SWs("L")>>))
 @@ (<<237>> :> Entry(0, <<>>, <<OCFp(<<237>>)>>))
 @@ (<<241>> :> Entry(0, <<>>, <<SR, SRa(LDr("AF"))>>))
 @@ (<<245>> :> Entry(1, <<>>, <<SWs("A"), SWs("F")>>))
 @@ (<<253>> :> Entry(0, <<>>, <<OCFp(<<253>>)>>))
 @@ (<<221, 126>> :> Entry(0, <<>>, <<[OD EXCEPT !.key = "address", !.signed = TRUE],
                                      [IO(5, TRUE) EXCEPT !.transform = <<add_register("address", "IX")>>],
                                      [MR EXCEPT !.action = <<LDr("A")>>]>>))
 @@ (<<221, 225>> :> Entry(0, <<>>, <<SR, SRa(LDr("IX"))>>))
 @@ (<<221, 229>> :> Entry(1, <<>>, <<SWs("IXH"), SWs("IXL")>>))
 @@ (<<253, 126>> :> Entry(0, <<>>, <<[OD EXCEPT !.key = "address", !.signed = TRUE],
                                      [IO(5, TRUE) EXCEPT !.transform = <<add_register("address", "IY")>>],
                                      [MR EXCEPT !.action = <<LDr("A")>>]>>))
 @@ (<<253, 225>> :> Entry(0, <<>>, <<SR, SRa(LDr("IY"))>>))
 @@ (<<253, 229>> :> Entry(1, <<>>, <<SWs("IYH"), SWs("IYL")>>))
 @@ (<<237, 68>>  :> Entry(0, <<[set_flags(<<"S", "Z", "5", "1", "3", "V", "1", "1">>, "NEG")
                                     EXCEPT !.dest = "A"]>>, <<>>))
 @@ (<<237, 69>>  :> Entry(0, <<>>, <<SR, SRa(JP)>>))
 @@ (<<237, 77>>  :> Entry(0, <<>>, <<SR, SRa(JP)>>))
 @@ (<<237, 160>> :> Entry(0, <<>>, <<MRi("HL"), BlockMW(<<inc("HL"), inc("DE")>>, <<>>)>>))
 @@ (<<237, 161>> :> Entry(0, <<>>, <<MRi("HL"), BlockIO(inc("HL"), <<>>)>>))
 @@ (<<237, 168>> :> Entry(0, <<>>, <<MRi("HL"), BlockMW(<<dec("HL"), dec("DE")>>, <<>>)>>))
 @@ (<<237, 169>> :> Entry(0, <<>>, <<MRi("HL"), BlockIO(dec("HL"), <<>>)>>))
 @@ (<<237, 176>> :> Entry(0, <<>>, <<MRi("HL"),
                                      BlockMW(<<inc("HL"), inc("DE")>>, <<on_zero("BC", early_abort)>>),
                                      Repeat>>))
 @@ (<<237, 177>> :> Entry(0, <<>>, <<MRi("HL"),
                                      BlockIO(inc("HL"), <<on_zero("BC", early_abort),
                                                           on_flag("Z", early_abort)>>),
                                      Repeat>>))
 @@ (<<237, 184>> :> Entry(0, <<>>, <<MRi("HL"),
                                      BlockMW(<<dec("HL"), dec("DE")>>, <<on_zero("BC", early_abort)>>),
                                      Repeat>>))
 @@ (<<237, 185>> :> Entry(0, <<>>, <<MRi("HL"),
                                      BlockIO(dec("HL"), <<on_zero("BC", early_abort),
                                                           on_flag("Z", early_abort)>>),
                                      Repeat>>))
 @@ (<<203>> :> Entry(0, <<>>, <<OCFp(<<203>>)>>))
 @@ ArithmeticStates
 @@ CBStates

(* decode_instruction raises UnrecognisedInstructionError for a key outside the table *)
Recognised(instruction) == instruction \in DOMAIN INSTRUCTION_STATES

decode_instruction(instruction) == INSTRUCTION_STATES[instruction]

(* range(0, extra_clocks-1) in OCF.run: the yields after the third one *)
OCFExtraYields(extra_clocks) == IF extra_clocks - 1 > 0 THEN extra_clocks - 1 ELSE 0

(***************************************************************************)
(* One next() call on the generator of the head state st of pipeline pl.   *)
(* The result holds the state, whether the generator finished (done), the  *)
(* pipeline as the call left it (early_abort and OCF's extend change it),  *)
(* the registers, the memory and the exception the call raised.            *)
(***************************************************************************)
Res(st, pl, cpu) ==
    [st |-> st, done |-> FALSE, pl |-> pl, reg |-> cpu.reg, mem |-> cpu.mem, exc |-> "none"]

(* run the optional end-of-state actions of st with the arguments args *)
Context(r, cpu) ==
    [reg |-> r.reg, kwargs |-> r.st.kwargs, pipeline |-> r.pl, mem |-> r.mem,
     iff2 |-> cpu.iff2, exc |-> "none"]

Merged(r, c1) ==
    [r EXCEPT !.st.kwargs = c1.kwargs, !.pl = c1.pipeline, !.reg = c1.reg,
              !.exc = c1.exc, !.done = (c1.exc = "none")]

WithActions(r, cpu, actions, args) == Merged(r, RunEach(actions, Context(r, cpu), args))

(* the third step of OCF.run: decode_instruction(inst), then PC = PC + 1;  *)
(* the first version advances PC before it decodes                         *)
AdvanceThenDecode(r, st, cpu) ==
    IF ~Recognised(st.inst)
    THEN [r EXCEPT !.exc = "UnrecognisedInstructionError",
                   !.reg = setattr(cpu.reg, "PC", st.lPC + 1)]
    ELSE IF st.given # <<>> THEN r
    ELSE [r EXCEPT !.reg = setattr(cpu.reg, "PC", st.lPC + 1)]

DecodeThenAdvance(r, st, cpu) ==
    IF ~Recognised(st.inst) THEN [r EXCEPT !.exc = "UnrecognisedInstructionError"]
    ELSE IF st.given # <<>> THEN r
    ELSE [r EXCEPT !.reg = setattr(cpu.reg, "PC", st.lPC + 1)]

RunOCF(st, pl, cpu) ==
    LET r == Res(st, pl, cpu) IN
    IF st.n = 0 THEN [r EXCEPT !.st.lPC = cpu.reg["PC"]]
    ELSE IF st.n = 1 THEN
        IF st.given # <<>> THEN [r EXCEPT !.st.inst = st.prefix \o st.given]
        ELSE IF ~MemValid(st.lPC) THEN [r EXCEPT !.exc = "IndexError"]
        ELSE [r EXCEPT !.st.inst = st.prefix \o <<MemRead(cpu.mem, st.lPC)>>]
    ELSE IF st.n = 2 THEN DecodeThenAdvance(r, st, cpu)
    ELSE LET e == decode_instruction(st.inst) IN
        IF st.n < 3 + OCFExtraYields(e.extra) THEN r
        ELSE WithActions([r EXCEPT !.pl = pl \o e.states], cpu, e.actions, <<>>)

(* if signed and D >= 0x80: D = D - 0x100 *)
SignIgnored(signed, D) == D

SignExtend(signed, D) == IF signed /\ D >= 128 THEN D - 256 ELSE D

RunOD(st, pl, cpu) ==
    LET r == Res(st, pl, cpu) IN
    IF st.n = 0 THEN [r EXCEPT !.st.lPC = cpu.reg["PC"]]
    ELSE IF st.n = 1 THEN
        IF ~MemValid(st.lPC) THEN [r EXCEPT !.exc = "IndexError"]
        ELSE LET D == MemRead(cpu.mem, st.lPC)
             IN  [r EXCEPT !.st.lD = SignExtend(st.signed, D)]
    ELSE LET D  == IF st.key \in DOMAIN st.kwargs /\ st.compound
                   THEN high_after_low(st.lD, st.kwargs[st.key]) ELSE st.lD
             r1 == [r EXCEPT !.reg = setattr(cpu.reg, "PC", st.lPC + 1)]
         IN  IF st.action # <<>> THEN WithActions(r1, cpu, st.action, <<D>>)
             ELSE [r1 EXCEPT !.st.kwargs = SetKw(st.kwargs, st.key, D), !.done = TRUE]

(* the address of an MR or MW: its parameter, else the register indirect, else kwargs['address'] *)
HasAddress(st) == st.address # <<>> \/ st.indirect # "" \/ "address" \in DOMAIN st.kwargs

ResolveAddress(st, reg) ==
    IF st.address # <<>> THEN st.address[1]
    ELSE IF st.indirect # "" THEN getattr(reg, st.indirect)
    ELSE st.kwargs["address"]

RunMR(st, pl, cpu) ==
    LET r == Res(st, pl, cpu) IN
    IF st.n = 0 THEN
        IF ~HasAddress(st) THEN [r EXCEPT !.exc = "Exception"]
        ELSE [r EXCEPT !.st.laddress = ResolveAddress(st, cpu.reg)]
    ELSE IF st.n = 1 THEN
        IF ~MemValid(st.laddress) THEN [r EXCEPT !.exc = "IndexError"]
        ELSE [r EXCEPT !.st.lD = MemRead(cpu.mem, st.laddress)]
    ELSE LET D  == IF "value" \in DOMAIN st.kwargs /\ st.compound
                   THEN high_after_low(st.lD, st.kwargs["value"]) ELSE st.lD
             r1 == IF st.incaddr
                   THEN [r EXCEPT !.st.kwargs = SetKw(st.kwargs, "address", st.laddress + 1)]
                   ELSE r
         IN  IF st.action # <<>> THEN WithActions(r1, cpu, st.action, <<D>>)
             ELSE [r1 EXCEPT !.st.kwargs = SetKw(r1.st.kwargs, "value", D), !.done = TRUE]

RunMW(st, pl, cpu) ==
    LET r == Res(st, pl, cpu) IN
    IF st.n = 0 THEN
        IF ~HasAddress(st) THEN [r EXCEPT !.exc = "Exception"]
        ELSE [r EXCEPT !.st.laddress = ResolveAddress(st, cpu.reg)]
    ELSE IF st.n = 1 THEN
        IF st.value # <<>> THEN [r EXCEPT !.st.lvalue = st.value[1]]
        ELSE IF st.source # "" THEN [r EXCEPT !.st.lvalue = getattr(cpu.reg, st.source)]
        ELSE IF "value" \in DOMAIN st.kwargs THEN [r EXCEPT !.st.lvalue = st.kwargs["value"]]
        ELSE [r EXCEPT !.exc = "Exception"]
    ELSE LET r1 == IF st.n = 2
                   THEN IF ~MemValid(st.laddress) THEN [r EXCEPT !.exc = "IndexError"]
                        ELSE [r EXCEPT !.mem = MemWrite(cpu.mem, st.laddress, st.lvalue),
                                       !.st.kwargs = SetKw(st.kwargs, "address", st.laddress + 1)]
                   ELSE r
         IN  IF r1.exc # "none" \/ st.n < 2 + st.extra THEN r1
             ELSE IF st.action # <<>> THEN WithActions(r1, cpu, st.action, <<st.lvalue>>)
             ELSE [r1 EXCEPT !.done = TRUE]

RunSR(st, pl, cpu) ==
    LET r == Res(st, pl, cpu) IN
    IF st.n = 0 THEN [r EXCEPT !.st.laddress = cpu.reg["SP"]]
    ELSE IF st.n = 1 THEN
        IF ~MemValid(st.laddress) THEN [r EXCEPT !.exc = "IndexError"]
        ELSE [r EXCEPT !.st.lD = MemRead(cpu.mem, st.laddress)]
    ELSE IF st.n < 2 + st.extra THEN r
    ELSE LET D  == IF "value" \in DOMAIN st.kwargs /\ st.compound
                   THEN high_after_low(st.lD, st.kwargs["value"]) ELSE st.lD
             r1 == [r EXCEPT !.st.kwargs = SetKw(st.kwargs, "value", D),
                             !.reg = setattr(cpu.reg, "SP", cpu.reg["SP"] + 1)]
         IN  IF st.action # <<>> THEN WithActions(r1, cpu, st.action, <<D>>)
             ELSE [r1 EXCEPT !.done = TRUE]

(* a stack write that writes at SP first and decrements afterwards *)
RunSWWriteThenDecrement(st, pl, cpu) ==
    LET r == Res(st, pl, cpu) IN
    IF st.n = 0 THEN [r EXCEPT !.st.laddress = cpu.reg["SP"]]
    ELSE IF st.n <= 1 + st.extra THEN r
    ELSE IF st.source = "" /\ st.key \notin DOMAIN st.kwargs THEN [r EXCEPT !.exc = "KeyError"]
    ELSE LET D == IF st.source # "" THEN getattr(cpu.reg, st.source) ELSE st.kwargs[st.key] IN
         IF ~MemValid(st.laddress) THEN [r EXCEPT !.exc = "IndexError"]
         ELSE LET r1 == [r EXCEPT !.mem = MemWrite(cpu.mem, st.laddress, D),
                                  !.reg = setattr(cpu.reg, "SP", cpu.reg["SP"] - 1)]
              IN  IF st.action # <<>> THEN WithActions(r1, cpu, st.action, <<D>>)
                  ELSE [r1 EXCEPT !.done = TRUE]

RunSW(st, pl, cpu) ==
    LET r == Res(st, pl, cpu) IN
    IF st.n = 0 THEN [r EXCEPT !.reg = setattr(cpu.reg, "SP", cpu.reg["SP"] - 1)]
    ELSE IF st.n < 1 + st.extra THEN r
    ELSE IF st.n = 1 + st.extra THEN [r EXCEPT !.st.laddress = cpu.reg["SP"]]
    ELSE IF st.source = "" /\ st.key \notin DOMAIN st.kwargs THEN [r EXCEPT !.exc = "KeyError"]
    ELSE LET D == IF st.source # "" THEN getattr(cpu.reg, st.source) ELSE st.kwargs[st.key] IN
         IF ~MemValid(st.laddress) THEN [r EXCEPT !.exc = "IndexError"]
         ELSE LET r1 == [r EXCEPT !.mem = MemWrite(cpu.mem, st.laddress, D)]
              IN  IF st.action # <<>> THEN WithActions(r1, cpu, st.action, <<D>>)
                  ELSE [r1 EXCEPT !.done = TRUE]

(* the transform dictionary of an IO state, applied to the keys present in kwargs *)
Transformed(fn, reg, d) ==
    CASE fn.fn = "add_register" -> getattr(reg, fn.reg) + d
      [] fn.fn = "subfrom"      -> getattr(reg, fn.reg) - d

RECURSIVE ApplyTransform(_, _, _)
ApplyTransform(transform, kw, reg) ==
    IF transform = <<>> THEN kw
    ELSE LET t == Head(transform)
         IN  ApplyTransform(Tail(transform),
                            IF t.key \in DOMAIN kw
                            THEN SetKw(kw, t.key, Transformed(t, reg, kw[t.key])) ELSE kw,
                            reg)

RunIO(st, pl, cpu) ==
    LET r  == Res(st, pl, cpu)
        r1 == IF st.n = 0
              THEN [r EXCEPT !.st.kwargs = ApplyTransform(st.transform, st.kwargs, cpu.reg)]
              ELSE r
    IN  IF st.n < st.ticks - 1 THEN r1
        ELSE IF st.action # <<>> THEN WithActions(r1, cpu, st.action, <<>>)
        ELSE [r1 EXCEPT !.done = TRUE]

Run(st, pl, cpu) ==
    CASE st.kind = "OCF" -> RunOCF(st, pl, cpu)
      [] st.kind = "OD"  -> RunOD(st, pl, cpu)
      [] st.kind = "MR"  -> RunMR(st, pl, cpu)
      [] st.kind = "MW"  -> RunMW(st, pl, cpu)
      [] st.kind = "SR"  -> RunSR(st, pl, cpu)
      [] st.kind = "SW"  -> RunSW(st, pl, cpu)
      [] st.kind = "IO"  -> RunIO(st, pl, cpu)

(***************************************************************************)
(* MachineState.clock: one next() call on the head of the pipeline; when   *)
(* the generator is exhausted the state pops itself and hands its kwargs   *)
(* to the new head.  A generator that raised is exhausted at its next      *)
(* call.  The result is the pipeline, the registers, the memory and the    *)
(* exception that escaped.                                                 *)
(***************************************************************************)
PoppedWithoutKwargs(pl, kwargs) ==
    IF Len(pl) > 1 THEN SubSeq(pl, 2, Len(pl)) ELSE <<>>

Popped(pl, kwargs) ==
    IF Len(pl) > 1 THEN <<[pl[2] EXCEPT !.kwargs = kwargs]>> \o SubSeq(pl, 3, Len(pl))
    ELSE <<>>

Settled(r) ==
    IF r.exc # "none"
    THEN [pipeline |-> <<[r.st EXCEPT !.dead = TRUE]>> \o Tail(r.pl),
          reg |-> r.reg, mem |-> r.mem, exc |-> r.exc]
    ELSE IF r.done
    THEN [pipeline |-> Popped(r.pl, r.st.kwargs), reg |-> r.reg, mem |-> r.mem, exc |-> "none"]
    ELSE [pipeline |-> <<[r.st EXCEPT !.n = @ + 1]>> \o Tail(r.pl),
          reg |-> r.reg, mem |-> r.mem, exc |-> "none"]

MachineStateClock(pl, cpu) ==
    IF pl[1].dead
    THEN [pipeline |-> Popped(pl, pl[1].kwargs), reg |-> cpu.reg, mem |-> cpu.mem, exc |-> "none"]
    ELSE Settled(Run(pl[1], pl, cpu))

(***************************************************************************)
(* The memory images the CPU is run on: a program at address 0, a RET at   *)
(* 0x0010 for CALL, RETI at 0x0038 (the IM 1 handler) and RETN at 0x0066   *)
(* (the NMI handler).                                                      *)
(***************************************************************************)
Handlers == (16 :> 201) @@ (56 :> 237) @@ (57 :> 77) @@ (102 :> 237) @@ (103 :> 69)

Image(bytes) == [a \in 0..(Len(bytes) - 1) |-> bytes[a + 1]] @@ Handlers

Programs ==
    { Image(<<49, 0, 1, 205, 16, 0, 118>>),
      Image(<<197, 193, 227, 200, 192>>),
      Image(<<1, 0, 2, 16, 2, 0, 0, 16, 0, 3, 24, 254>>),
      Image(<<237, 160, 0, 118>>) }

Acks == {<<>>, <<3>>}

(* an exhausted ack producer stands for the byte 0x00 *)
AckByte(ack) == IF ack = <<>> THEN 0 ELSE ack[1]

(***************************************************************************)
(* cpu.py: the Z80CPU.  The variables are the attributes of the object;    *)
(* now counts the clock() calls and calls the interrupt() calls made;      *)
(* obs records what the most recent call did and cur describes the         *)
(* pipeline that is running: where it started and what it decoded.         *)
(***************************************************************************)
VARIABLES pipelines, reg, mem, iff1, iff2, int, pending_interrupts, interrupt_mode,
          tick_count, now, calls, obs, cur

vars == <<pipelines, reg, mem, iff1, iff2, int, pending_interrupts, interrupt_mode,
          tick_count, now, calls, obs, cur>>

(* lines 39-42 of clock(): the last NMI if there is one, else the last request *)
RECURSIVE LastNMI(_)
LastNMI(pending) ==
    IF pending = <<>> THEN <<>>
    ELSE IF pending[Len(pending)].nmi THEN <<pending[Len(pending)]>>
    ELSE LastNMI(SubSeq(pending, 1, Len(pending) - 1))

SelectLastRequest(pending) ==
    IF Len(pending) > 0 THEN <<pending[Len(pending)]>> ELSE <<>>

SelectInterrupt(pending) ==
    IF LastNMI(pending) # <<>> THEN LastNMI(pending)
    ELSE IF Len(pending) > 0 THEN <<pending[Len(pending)]>>
    ELSE <<>>

(* interrupt(): a request is latched if it is an NMI or iff1 is set *)
LatchesAlways(nmi, f1) == TRUE

Latches(nmi, f1) == nmi \/ (f1 # 0)

(* lines 46-48 of clock(): the flip-flops after an interrupt is taken *)
AckIff1Kept(nmi, old) == old

AckIff1(nmi, old) == 0

AckIff2Cleared(nmi, old) == 0

AckIff2(nmi, old) == IF ~nmi THEN 0 ELSE old

(***************************************************************************)
(* interrupt_response is called by clock() and defined in no source file;  *)
(* it is modelled from the interrupt acknowledgement section: NMI pushes   *)
(* PC and jumps to 0x0066 in 11 T-states, IM 1 pushes PC and jumps to      *)
(* 0x0038 in 13, IM 2 pushes PC and loads PC from (I << 8) | vector in 19, *)
(* IM 0 executes the acknowledged byte as though an OCF had produced it.   *)
(***************************************************************************)
interrupt_response(mode, I, nmi, ack) ==
    IF nmi THEN <<IO(5, TRUE), SWs("PCH"), [SWs("PCL") EXCEPT !.action = <<JPvalue(102)>>]>>
    ELSE IF mode = 1
         THEN <<IO(7, TRUE), SWs("PCH"), [SWs("PCL") EXCEPT !.action = <<JPvalue(56)>>]>>
    ELSE IF mode = 2
         THEN <<IO(7, TRUE), SWs("PCH"), SWs("PCL"),
                [MR EXCEPT !.address = <<BitOr(Shl(I, 8), AckByte(ack))>>],
                [MR EXCEPT !.action = <<JP>>]>>
    ELSE <<[OCF EXCEPT !.given = <<AckByte(ack)>>]>>

(* the for loop of clock(): one tick on the head of every pipeline, in order *)
Ticked(acc, i, r) ==
    [pipelines |-> [acc.pipelines EXCEPT ![i] = r.pipeline],
     reg |-> r.reg, mem |-> r.mem, exc |-> r.exc,
     ticked |-> IF r.exc = "none" THEN acc.ticked + 1 ELSE acc.ticked]

RECURSIVE ClockPipelines(_, _, _)
ClockPipelines(i, acc, iff2v) ==
    IF i > Len(acc.pipelines) \/ acc.exc # "none" THEN acc
    ELSE IF acc.pipelines[i] = <<>> THEN [acc EXCEPT !.exc = "IndexError"]
    ELSE ClockPipelines(i + 1,
             Ticked(acc, i, MachineStateClock(acc.pipelines[i],
                                              [reg |-> acc.reg, mem |-> acc.mem, iff2 |-> iff2v])),
             iff2v)

(* while len(self.pipelines) > 0 and len(self.pipelines[0]) == 0: self.pipelines.pop(0) *)
RECURSIVE DropEmpty(_)
KeepEmpty(pls) == pls

DropEmpty(pls) == IF Len(pls) > 0 /\ pls[1] = <<>> THEN DropEmpty(Tail(pls)) ELSE pls

(* all(all(not state.fetchlocked() for state in pipeline) for pipeline in self.pipelines) *)
UnlockedAlways(pls) == TRUE

Unlocked(pls) ==
    \A i \in 1..Len(pls) : \A j \in 1..Len(pls[i]) : ~fetchlocked(pls[i][j])

(***************************************************************************)
(* The T-states an instruction is documented to take: 4 + extra for each   *)
(* opcode fetch and the duration of every state the decode appends.        *)
(***************************************************************************)
Nominal(st) ==
    CASE st.kind = "OD"  -> 3
      [] st.kind = "MR"  -> 3
      [] st.kind = "MW"  -> 3 + st.extra
      [] st.kind = "SR"  -> 3 + st.extra
      [] st.kind = "SW"  -> 3 + st.extra
      [] st.kind = "IO"  -> st.ticks
      [] st.kind = "OCF" -> 0

RECURSIVE NominalSum(_)
NominalSum(states) == IF states = <<>> THEN 0 ELSE Nominal(Head(states)) + NominalSum(Tail(states))

(***************************************************************************)
(* The clock() calls a state serves before it pops itself, read off the    *)
(* yields of its run method; an OCF counts when it decodes.                *)
(***************************************************************************)
Lasts(st) ==
    CASE st.kind = "OD"  -> 3
      [] st.kind = "MR"  -> 3
      [] st.kind = "MW"  -> 3 + st.extra
      [] st.kind = "SR"  -> 3 + st.extra
      [] st.kind = "SW"  -> 3 + st.extra
      [] st.kind = "IO"  -> IF st.ticks > 1 THEN st.ticks ELSE 1
      [] st.kind = "OCF" -> 0

RECURSIVE LastsSum(_)
LastsSum(states) == IF states = <<>> THEN 0 ELSE Lasts(Head(states)) + LastsSum(Tail(states))

(* the head of the first pipeline is an OCF about to decode, extend and run its actions *)
HeadDecodes(pls) ==
    /\ pls # <<>> /\ pls[1] # <<>>
    /\ pls[1][1].kind = "OCF" /\ ~pls[1][1].dead /\ pls[1][1].n >= 3
    /\ pls[1][1].n = 3 + OCFExtraYields(decode_instruction(pls[1][1].inst).extra)

NoObs ==
    [op |-> "init", exc |-> "none", rv |-> 0, nmi |-> FALSE, ack |-> <<>>, latched |-> FALSE,
     boundary |-> FALSE, accepted |-> <<>>, ticks |-> 0, completed |-> <<>>]

(* reg0 and mem0 are the registers and the memory the pipeline started on, *)
(* failed tells whether one of its clock() calls raised and prev is the    *)
(* record of the pipeline that ran before it                               *)
Started(kind, r, m, f1, f2, mode, pend, states, sel, t, prev) ==
    [kind |-> kind, pc0 |-> r["PC"], sp0 |-> r["SP"], reg0 |-> r, mem0 |-> m,
     iff1_0 |-> f1, iff2_0 |-> f2,
     mode |-> mode, pending |-> pend, planned |-> NominalSum(states), lasting |-> LastsSum(states),
     truncated |-> FALSE, failed |-> FALSE, keys |-> <<>>, t0 |-> t,
     nmi |-> IF sel = <<>> THEN FALSE ELSE sel[1].nmi,
     ack |-> IF sel = <<>> THEN <<>> ELSE sel[1].ack,
     prev |-> prev]

(* cur after a tick: what the head decoded and whether the tail was cut *)
Decoded(c, e, inst) ==
    [c EXCEPT !.planned = @ + 4 + e.extra + NominalSum(e.states),
              !.lasting = @ + 4 + OCFExtraYields(e.extra) + LastsSum(e.states),
              !.keys = Append(@, inst)]

Cut(c, grown, after) == [c EXCEPT !.truncated = @ \/ (Len(after[1]) < grown - 1)]

Tracked(before, after) ==
    IF HeadDecodes(before)
    THEN Cut(Decoded(cur, decode_instruction(before[1][1].inst), before[1][1].inst),
             Len(before[1]) + Len(decode_instruction(before[1][1].inst).states), after)
    ELSE Cut(cur, Len(before[1]), after)

Init ==
    /\ pipelines = << <<OCF>> >>
    /\ reg = RegisterFile
    /\ mem \in Programs
    /\ iff1 = 0
    /\ iff2 = 0
    /\ int = FALSE
    /\ pending_interrupts = <<>>
    /\ interrupt_mode = 0
    /\ tick_count = 0
    /\ now = 0
    /\ calls = 0
    /\ obs = NoObs
    /\ cur = Started("fetch", RegisterFile, mem, 0, 0, 0, <<>>, <<>>, <<>>, 0, <<>>)

(***************************************************************************)
(* Z80CPU.clock                                                            *)
(***************************************************************************)
(* lines 54-55: a new opcode fetch when nothing holds the fetch lock *)
RefillNever(pls) == pls

Refill(pls) == IF Unlocked(pls) THEN Append(pls, <<OCF>>) ELSE pls

(* what a call that reached the boundary reports *)
AtBoundary(c1, tr, sel) ==
    [NoObs EXCEPT !.op = "clock", !.boundary = TRUE, !.accepted = sel,
                  !.ticks = tick_count + c1.ticked, !.completed = <<tr>>]

(* lines 45-49 and 53-55: the selected request sel is acknowledged by pipeline p *)
Acknowledge(c1, p2, tr, sel, p) ==
    /\ iff1' = AckIff1(sel[1].nmi, iff1)
    /\ iff2' = AckIff2(sel[1].nmi, iff2)
    /\ int' = FALSE
    /\ pipelines' = Refill(Append(p2, p))
    /\ obs' = AtBoundary(c1, tr, sel)
    /\ cur' = Started("ack", c1.reg, c1.mem, iff1, iff2, interrupt_mode, pending_interrupts,
                      p, sel, now + 1, <<tr>>)

(* lines 50-51: int is set and no request is latched *)
Unprocessable(c1, p2, tr) ==
    /\ UNCHANGED <<iff1, iff2, int>>
    /\ pipelines' = p2
    /\ obs' = [AtBoundary(c1, tr, <<>>) EXCEPT !.exc = "Exception"]
    /\ cur' = tr

(* lines 53-58: no request is latched *)
Refetch(c1, tr, p4) ==
    /\ UNCHANGED <<iff1, iff2>>
    /\ int' = FALSE
    /\ pipelines' = p4
    /\ obs' = [AtBoundary(c1, tr, <<>>) EXCEPT !.exc = IF Len(p4) = 0 THEN "CPUStalled" ELSE "none"]
    /\ cur' = Started("fetch", c1.reg, c1.mem, iff1, iff2, interrupt_mode, pending_interrupts,
                      <<>>, <<>>, now + 1, <<tr>>)

(* lines 36-53: the boundary between two instructions *)
Boundary(c1, p2, tr, sel) ==
    /\ pending_interrupts' = <<>>
    /\ tick_count' = 0
    /\ IF sel # <<>>
       THEN Acknowledge(c1, p2, tr, sel,
                        interrupt_response(interrupt_mode, c1.reg["I"], sel[1].nmi, sel[1].ack))
       ELSE IF int = TRUE THEN Unprocessable(c1, p2, tr)
       ELSE Refetch(c1, tr, Refill(p2))

(* lines 54-60 when a state holds the fetch lock *)
Running(c1, p2, tr) ==
    /\ pipelines' = p2
    /\ tick_count' = tick_count + c1.ticked
    /\ UNCHANGED <<iff1, iff2, int, pending_interrupts>>
    /\ obs' = [NoObs EXCEPT !.op = "clock", !.rv = tick_count + c1.ticked]
    /\ cur' = tr

(* an exception raised by a machine state leaves clock() at line 31 *)
Escaped(c1) ==
    /\ pipelines' = c1.pipelines
    /\ reg' = c1.reg
    /\ mem' = c1.mem
    /\ tick_count' = tick_count + c1.ticked
    /\ UNCHANGED <<iff1, iff2, int, pending_interrupts>>
    /\ obs' = [NoObs EXCEPT !.op = "clock", !.exc = c1.exc]
    /\ cur' = [cur EXCEPT !.failed = TRUE]

(* lines 33-60 *)
Resumed(c1, p2, tr) ==
    /\ reg' = c1.reg
    /\ mem' = c1.mem
    /\ IF Unlocked(p2) THEN Boundary(c1, p2, tr, SelectInterrupt(pending_interrupts))
       ELSE Running(c1, p2, tr)

AfterTick(c1) ==
    IF c1.exc # "none" THEN Escaped(c1)
    ELSE Resumed(c1, DropEmpty(c1.pipelines), Tracked(pipelines, c1.pipelines))

clock ==
    /\ now < MaxClocks
    /\ now' = now + 1
    /\ calls' = calls
    /\ interrupt_mode' = interrupt_mode
    /\ AfterTick(ClockPipelines(1, [pipelines |-> pipelines, reg |-> reg, mem |-> mem,
                                    exc |-> "none", ticked |-> 0], iff2))

(***************************************************************************)
(* Z80CPU.interrupt                                                        *)
(***************************************************************************)
interrupt(ack, nmi) ==
    /\ calls < MaxInterrupts
    /\ Len(pending_interrupts) < MaxPending
    /\ calls' = calls + 1
    /\ int' = (int \/ Latches(nmi, iff1))
    /\ pending_interrupts' = IF Latches(nmi, iff1)
                             THEN Append(pending_interrupts, [nmi |-> nmi, ack |-> ack])
                             ELSE pending_interrupts
    /\ obs' = [NoObs EXCEPT !.op = "interrupt", !.nmi = nmi, !.ack = ack,
                            !.latched = Latches(nmi, iff1)]
    /\ UNCHANGED <<pipelines, reg, mem, iff1, iff2, interrupt_mode, tick_count, now, cur>>

(***************************************************************************)
(* What a driver does to a new CPU before it clocks it: the helpers ei and *)
(* begin_nmi of the instruction tests and a write of interrupt_mode.       *)
(***************************************************************************)
Fresh == obs.op \in {"init", "setup"}

ei ==
    /\ Fresh /\ iff1 = 0 /\ iff2 = 0
    /\ iff1' = 1
    /\ iff2' = 1
    /\ obs' = [NoObs EXCEPT !.op = "setup"]
    /\ cur' = [cur EXCEPT !.iff1_0 = 1, !.iff2_0 = 1]
    /\ UNCHANGED <<pipelines, reg, mem, int, pending_interrupts, interrupt_mode, tick_count, now, calls>>

begin_nmi ==
    /\ Fresh /\ iff1 = 0 /\ iff2 = 0
    /\ iff1' = 0
    /\ iff2' = 1
    /\ obs' = [NoObs EXCEPT !.op = "setup"]
    /\ cur' = [cur EXCEPT !.iff1_0 = 0, !.iff2_0 = 1]
    /\ UNCHANGED <<pipelines, reg, mem, int, pending_interrupts, interrupt_mode, tick_count, now, calls>>

set_interrupt_mode(m) ==
    /\ Fresh /\ interrupt_mode = 0
    /\ interrupt_mode' = m
    /\ obs' = [NoObs EXCEPT !.op = "setup"]
    /\ cur' = [cur EXCEPT !.mode = m]
    /\ UNCHANGED <<pipelines, reg, mem, iff1, iff2, int, pending_interrupts, tick_count, now, calls>>

Next ==
    \/ clock
    \/ \E ack \in Acks, nmi \in BOOLEAN : interrupt(ack, nmi)
    \/ ei
    \/ begin_nmi
    \/ \E m \in {1, 2} : set_interrupt_mode(m)

Spec == Init /\ [][Next]_vars

(***************************************************************************)
(* A driver that loads a program, presets registers and memory and then    *)
(* only clocks the CPU, as execute_instructions of the instruction tests   *)
(* does with its pre actions.  A case is the memory image and the register *)
(* file the first clock() call finds.                                      *)
(***************************************************************************)
(* the pre actions A(v), BC(v), SP(v), ...: setattr on the register file, in order *)
RECURSIVE Preset(_)
Preset(assignments) ==
    IF assignments = <<>> THEN RegisterFile
    ELSE setattr(Preset(SubSeq(assignments, 1, Len(assignments) - 1)),
                 assignments[Len(assignments)][1], assignments[Len(assignments)][2])

(* the pre actions M(address, value): bytes that differ from address to address *)
DataAddresses == {12, 31, 32, 33, 34, 44, 48, 49, 127, 159, 65407, 65408, 65440, 65534, 65535}

Data == [a \in DataAddresses |-> 1 + (a % 199)]

Case(bytes, assignments) == [mem |-> Image(bytes), reg |-> Preset(assignments)]

DataCase(bytes, assignments) == [mem |-> Image(bytes) @@ Data, reg |-> Preset(assignments)]

StackPointers == {0, 1, 2, 3, 256, 65535}

(* values of rr; a byte of them that a stack under the program puts in the *)
(* way of the fetch is 0x00, 0x03, 0x76 or 0xFF                            *)
PairValues == {0, 255, 30211, 65535}

(* conditional RET, CALL, JR and JP with Z clear and set; DJNZ with B = 0, 1, 2 *)
ConditionalCases ==
    { Case(p, << <<"F", f>>, <<"SP", 256>> >>) :
        p \in { <<192>>, <<200>>, <<196, 16, 0>>, <<204, 16, 0>>, <<32, 2>>, <<40, 2>>,
                <<194, 16, 0>>, <<202, 16, 0>>, <<0, 196, 16, 0>>, <<0, 192>> },
        f \in {0, 64} }
    \cup { Case(<<16, 2>>, << <<"B", b>> >>) : b \in {0, 1, 2} }

(* CALL nn ; RET, with CALL at address 0 and at address 1 *)
CallCases ==
    { Case(p, << <<"SP", s>> >>) : p \in { <<205, 16, 0>>, <<0, 205, 16, 0>> }, s \in StackPointers }

(* PUSH rr ; POP rr for the six pairs *)
PushPop ==
    { [rr |-> "BC", bytes |-> <<197, 193>>, push |-> << <<197>> >>, pop |-> << <<193>> >>],
      [rr |-> "DE", bytes |-> <<213, 209>>, push |-> << <<213>> >>, pop |-> << <<209>> >>],
      [rr |-> "HL", bytes |-> <<229, 225>>, push |-> << <<229>> >>, pop |-> << <<225>> >>],
      [rr |-> "AF", bytes |-> <<245, 241>>, push |-> << <<245>> >>, pop |-> << <<241>> >>],
      [rr |-> "IX", bytes |-> <<221, 229, 221, 225>>,
       push |-> << <<221>>, <<221, 229>> >>, pop |-> << <<221>>, <<221, 225>> >>],
      [rr |-> "IY", bytes |-> <<253, 229, 253, 225>>,
       push |-> << <<253>>, <<253, 229>> >>, pop |-> << <<253>>, <<253, 225>> >>] }

StackCases ==
    { Case(p.bytes, << <<p.rr, v>>, <<"SP", s>> >>) :
        p \in PushPop, v \in PairValues, s \in StackPointers }

(* LD A,(IX+d) and LD A,(IY+d) *)
IndexedCases ==
    { DataCase(<<p[1], 126, d>>, << <<p[2], x>> >>) :
        p \in { <<221, "IX">>, <<253, "IY">> }, d \in {12, 127, 128, 255}, x \in {0, 32, 65535} }

(* the block instructions over the bytes at 0x20.. with DE = 0x30 *)
BlockCases ==
    { DataCase(<<237, op>>, << <<"HL", 33>>, <<"DE", 48>>, <<"BC", n>>, <<"A", a>>, <<"F", 4>> >>) :
        op \in {160, 161, 168, 169, 176, 177, 184, 185}, n \in {1, 2, 3}, a \in {33, 34, 35, 99} }

(* LDIR and LDDR with the destination inside the source *)
OverlapCases ==
    { DataCase(<<237, op>>, << <<"HL", 33>>, <<"DE", de>>, <<"BC", n>> >>) :
        op \in {176, 184}, de \in {32, 34}, n \in {1, 2} }

(* bytes with no decode entry, bare and behind a prefix *)
UnknownCases ==
    { Case(p, <<>>) : p \in { <<118>>, <<0, 118>>, <<237, 0>>, <<221, 0>>, <<1, 2, 3, 253, 118>> } }

Cases ==
    ConditionalCases \cup CallCases \cup StackCases \cup IndexedCases \cup BlockCases
    \cup OverlapCases \cup UnknownCases

InitRun ==
    /\ pipelines = << <<OCF>> >>
    /\ \E c \in Cases :
          /\ reg = c.reg
          /\ mem = c.mem
          /\ cur = Started("fetch", c.reg, c.mem, 0, 0, 0, <<>>, <<>>, <<>>, 0, <<>>)
    /\ iff1 = 0
    /\ iff2 = 0
    /\ int = FALSE
    /\ pending_interrupts = <<>>
    /\ interrupt_mode = 0
    /\ tick_count = 0
    /\ now = 0
    /\ calls = 0
    /\ obs = NoObs

SpecRun == InitRun /\ [][clock]_vars

(***************************************************************************)
(* The arithmetic and the CB page tests: one instruction at address 0 on   *)
(* operands set beforehand (test_add8 .. test_cp, test_rlc .. test_bit).   *)
(***************************************************************************)
OperandValues == {0, 1, 15, 127, 128, 255}

FlagValues == {0, 255}

ArithmeticCases ==
    { Case(<<k>>, << <<"A", x>>, <<"B", y>>, <<"F", f>> >>) :
        k \in {4, 5, 128, 136, 144, 152, 160, 168, 176, 184},
        x \in OperandValues, y \in OperandValues, f \in FlagValues }
    \cup { Case(<<k>>, << <<"A", x>>, <<"F", f>> >>) :
        k \in {60, 61, 135, 191}, x \in OperandValues, f \in FlagValues }
    \cup { Case(<<k>>, << <<"A", x>>, <<"L", 41>>, <<"F", f>> >>) :
        k \in {133, 165, 173, 181}, x \in OperandValues, f \in FlagValues }

RotatedValues == {0, 1, 41, 127, 128, 168, 255}

CBCases ==
    { Case(<<203, k>>, << <<"B", x>>, <<"F", f>> >>) :
        k \in {0, 8, 16, 24, 32, 40, 48, 56} \cup {64 + 8 * n : n \in 0..7},
        x \in RotatedValues, f \in FlagValues }
    \cup { Case(<<203, k>>, << <<"A", x>>, <<"F", f>> >>) :
        k \in {7, 15, 127}, x \in RotatedValues, f \in FlagValues }

(* test_neg, test_cpl, test_scf, test_ccf and test_daa *)
AccumulatorValues == OperandValues \cup {9, 10, 40, 60, 153, 154, 160, 250}

AdjustFlags == {0, 1, 2, 3, 16, 17, 18, 19, 236, 255}

AccumulatorCases ==
    { Case(p, << <<"A", x>>, <<"F", f>> >>) :
        p \in { <<39>>, <<47>>, <<55>>, <<63>>, <<237, 68>> },
        x \in AccumulatorValues, f \in AdjustFlags }

InitALU ==
    /\ pipelines = << <<OCF>> >>
    /\ \E c \in ArithmeticCases \cup CBCases \cup AccumulatorCases :
          /\ reg = c.reg
          /\ mem = c.mem
          /\ cur = Started("fetch", c.reg, c.mem, 0, 0, 0, <<>>, <<>>, <<>>, 0, <<>>)
    /\ iff1 = 0
    /\ iff2 = 0
    /\ int = FALSE
    /\ pending_interrupts = <<>>
    /\ interrupt_mode = 0
    /\ tick_count = 0
    /\ now = 0
    /\ calls = 0
    /\ obs = NoObs

(* execute_instructions clocks the CPU for the T-states the test gives *)
test_clock == now < MaxTestClocks /\ clock

SpecALU == InitALU /\ [][test_clock]_vars

(***************************************************************************)
(* The register file on its own: a test sets registers of a RegisterFile   *)
(* and calls its methods (tests/test_registers.py).  The file starts as    *)
(* constructed or as test_ex and the register tests leave it; each step    *)
(* is one attribute write or one method call, kept in obs with the file    *)
(* it was applied to.                                                      *)
(***************************************************************************)
RegisterNames == StoredRegisters \cup PairNames \cup HighNames \cup LowNames

WriteNames == RegisterNames \cup {"XY"}

WriteValues == {-1, 0, 90, 255, 256, 21930, 65535, 65536}

CallNames == FlagNames \cup {"X"}

RegisterFiles ==
    {RegisterFile,
     Preset(<< <<"A", 170>>, <<"B", 187>>, <<"C", 204>>, <<"D", 221>>, <<"E", 238>>, <<"F", 240>>,
               <<"H", 17>>, <<"L", 34>>, <<"I", 51>>, <<"R", 68>>, <<"IX", 4660>>, <<"IY", 22136>>,
               <<"SP", 39612>>, <<"PC", 57072>>, <<"_A", 1>>, <<"_B", 2>>, <<"_C", 3>>, <<"_D", 4>>,
               <<"_E", 5>>, <<"_F", 15>>, <<"_H", 7>>, <<"_L", 8>> >>)}

(* __setattr__ as a call: the file it leaves and the exception it raises *)
Written(r, name, value) ==
    IF name \in RegisterNames
    THEN [reg |-> setattr(r, name, value), exc |-> "none"]
    ELSE [reg |-> r, exc |-> "AttributeError"]

Flagged(r, name, after) ==
    IF name \in FlagNames
    THEN [reg |-> after, exc |-> "none"]
    ELSE [reg |-> r, exc |-> "KeyError"]

RegObs(op, name, value, before, exc) ==
    [op |-> op, name |-> name, value |-> value, before |-> before, exc |-> exc]

InitReg ==
    /\ pipelines = << <<OCF>> >>
    /\ reg \in RegisterFiles
    /\ mem = Image(<<>>)
    /\ iff1 = 0
    /\ iff2 = 0
    /\ int = FALSE
    /\ pending_interrupts = <<>>
    /\ interrupt_mode = 0
    /\ tick_count = 0
    /\ now = 0
    /\ calls = 0
    /\ obs = RegObs("init", "", 0, reg, "none")
    /\ cur = Started("fetch", RegisterFile, mem, 0, 0, 0, <<>>, <<>>, <<>>, 0, <<>>)

RegFrame ==
    UNCHANGED <<pipelines, mem, iff1, iff2, int, pending_interrupts, interrupt_mode, tick_count, cur>>

reg_write(name, value) ==
    /\ now < MaxOps
    /\ calls < MaxWrites
    /\ reg' = Written(reg, name, value).reg
    /\ obs' = RegObs("write", name, value, reg, Written(reg, name, value).exc)
    /\ now' = now + 1
    /\ calls' = calls + 1
    /\ RegFrame

reg_call(op, name, after, exc) ==
    /\ now < MaxOps
    /\ reg' = after
    /\ obs' = RegObs(op, name, 0, reg, exc)
    /\ now' = now + 1
    /\ calls' = calls
    /\ RegFrame

reg_ex == reg_call("ex", "", ex(reg), "none")

reg_exx == reg_call("exx", "", exx(reg), "none")

reg_setflag(name) ==
    reg_call("setflag", name, Flagged(reg, name, setflag(reg, name)).reg,
             Flagged(reg, name, setflag(reg, name)).exc)

reg_resetflag(name) ==
    reg_call("resetflag", name, Flagged(reg, name, resetflag(reg, name)).reg,
             Flagged(reg, name, resetflag(reg, name)).exc)

NextReg ==
    \/ \E name \in WriteNames, value \in WriteValues : reg_write(name, value)
    \/ reg_ex
    \/ reg_exx
    \/ \E name \in CallNames : reg_setflag(name)
    \/ \E name \in CallNames : reg_resetflag(name)

SpecReg == InitReg /\ [][NextReg]_vars

(***************************************************************************)
(* Properties of the scheduler and of interrupt acknowledgement.           *)
(***************************************************************************)

(* C1: when an instruction finishes with no interrupt latched, the clock() *)
(* call that serves its last T-state leaves a single pipeline holding one  *)
(* fresh OCF and tick_count 0; that call is the tick_count-th call since   *)
(* the instruction's fetch began, and for an instruction that was not cut  *)
(* short this count is the sum of the calls its states serve.              *)
C1_FreshFetchAfterInstruction ==
    (obs.op = "clock" /\ obs.boundary /\ obs.exc = "none" /\ cur.pending = <<>>)
        => LET done == obs.completed[1]
           IN  (done.kind = "fetch" /\ done.keys # <<>>)
                   => /\ pipelines = << <<OCF>> >>
                      /\ tick_count = 0
                      /\ obs.ticks = now - done.t0
                      /\ ~done.truncated => obs.ticks = done.lasting

C1_Witness ==
    /\ obs.op = "clock" /\ obs.boundary /\ obs.exc = "none" /\ cur.pending = <<>>
    /\ obs.completed[1].kind = "fetch"
    /\ obs.completed[1].keys = << <<197>> >>
    /\ obs.ticks = 10
    /\ pipelines = << <<OCF>> >>

(* C2: after construction and after every clock() call the CPU holds       *)
(* exactly one pipeline and it is not empty; when a call schedules a new   *)
(* fetch or acknowledge pipeline, no state in the CPU has been clocked, so *)
(* nothing of the previous instruction is left beside it.                  *)
C2_ExactlyOnePipeline ==
    /\ Len(pipelines) = 1
    /\ Len(pipelines[1]) >= 1
    /\ (obs.op = "clock" /\ obs.boundary /\ obs.exc = "none")
           => \A j \in 1..Len(pipelines[1]) : pipelines[1][j].n = 0 /\ ~pipelines[1][j].dead

C2_Witness ==
    /\ obs.op = "clock" /\ obs.boundary /\ obs.accepted # <<>>
    /\ Len(pipelines) = 1
    /\ pipelines[1][1].kind = "IO"
    /\ Len(obs.completed[1].keys) = 2

(* C3: a clock() call after which a state of the running pipeline remains  *)
(* changes neither iff1 nor iff2, keeps the latched requests latched,      *)
(* schedules nothing, and changes the registers and the memory only as the *)
(* running state itself does.                                              *)
C3_NoAcknowledgeMidInstruction ==
    [][ LET c1   == ClockPipelines(1, [pipelines |-> pipelines, reg |-> reg, mem |-> mem,
                                       exc |-> "none", ticked |-> 0], iff2)
            rest == DropEmpty(c1.pipelines)
        IN  (obs'.op = "clock" /\ rest # <<>>)
                => /\ iff1' = iff1
                   /\ iff2' = iff2
                   /\ int' = int
                   /\ pending_interrupts' = pending_interrupts
                   /\ pipelines' = rest
                   /\ reg' = c1.reg
                   /\ mem' = c1.mem
                   /\ obs'.accepted = <<>>
                   /\ cur'.kind = cur.kind
                   /\ cur'.t0 = cur.t0 ]_vars

C3_Witness ==
    /\ obs.op = "clock" /\ ~obs.boundary /\ obs.exc = "none"
    /\ pending_interrupts # <<>>
    /\ ~pending_interrupts[1].nmi
    /\ iff1 = 1
    /\ pipelines[1][1].kind = "SW"
    /\ pipelines[1][1].n > 0

(* C4: at a boundary with requests latched exactly one acknowledge         *)
(* pipeline is scheduled and every request is dropped from the list; the   *)
(* pipeline answers the last NMI if any request is an NMI, else the last   *)
(* request.                                                                *)
C4_OneAcknowledgePerBoundary ==
    (obs.op = "clock" /\ obs.boundary /\ cur.pending # <<>>)
        => /\ Len(obs.accepted) = 1
           /\ pending_interrupts = <<>>
           /\ cur.kind = "ack"
           /\ pipelines = << interrupt_response(interrupt_mode, reg["I"],
                                                obs.accepted[1].nmi, obs.accepted[1].ack) >>
           /\ \E i \in 1..Len(cur.pending) :
                  /\ cur.pending[i] = obs.accepted[1]
                  /\ \A j \in (i + 1)..Len(cur.pending) : ~cur.pending[j].nmi
                  /\ (\E k \in 1..Len(cur.pending) : cur.pending[k].nmi) => cur.pending[i].nmi
                  /\ (\A k \in 1..Len(cur.pending) : ~cur.pending[k].nmi) => i = Len(cur.pending)

C4_Witness ==
    /\ obs.op = "clock" /\ obs.boundary
    /\ Len(cur.pending) = 2
    /\ cur.pending[1].nmi /\ ~cur.pending[2].nmi
    /\ cur.pending[1].ack # cur.pending[2].ack
    /\ obs.accepted = <<cur.pending[1]>>

(* C5: the call that acknowledges an NMI leaves iff1 = 0 and iff2 as it    *)
(* was; the call that acknowledges a maskable interrupt leaves both 0.     *)
C5_AcknowledgeFlipFlops ==
    (obs.op = "clock" /\ obs.boundary /\ obs.accepted # <<>>)
        => /\ iff1 = 0
           /\ obs.accepted[1].nmi => iff2 = cur.iff2_0
           /\ ~obs.accepted[1].nmi => iff2 = 0

C5_Witness ==
    /\ obs.op = "clock" /\ obs.boundary /\ obs.accepted # <<>>
    /\ obs.accepted[1].nmi
    /\ cur.iff1_0 = 1 /\ cur.iff2_0 = 1
    /\ iff1 = 0 /\ iff2 = 1

(* C6: interrupt(nmi=False) with iff1 = 0 changes nothing in the CPU, so   *)
(* the clock() calls that follow behave as if it had not been made; an     *)
(* NMI is latched whatever iff1 is; a maskable request is in the list only *)
(* while iff1 is set, and one is acknowledged only with iff1 set.          *)
C6_MaskableNeedsIff1 ==
    [][ /\ (obs'.op = "interrupt" /\ ~obs'.nmi /\ iff1 = 0)
            => UNCHANGED <<pipelines, reg, mem, iff1, iff2, int, pending_interrupts,
                           interrupt_mode, tick_count, cur>>
        /\ (obs'.op = "interrupt" /\ obs'.nmi)
            => /\ pending_interrupts' = Append(pending_interrupts, [nmi |-> TRUE, ack |-> obs'.ack])
               /\ int'
        /\ (\E i \in 1..Len(pending_interrupts') : ~pending_interrupts'[i].nmi) => iff1' # 0
        /\ (obs'.op = "clock" /\ obs'.accepted # <<>>)
            => (obs'.accepted[1].nmi \/ iff1 # 0) ]_vars

C6_Witness ==
    /\ obs.op = "interrupt" /\ ~obs.nmi /\ ~obs.latched
    /\ iff1 = 0 /\ iff2 = 1
    /\ pending_interrupts = <<>>
    /\ now > 4

(* C7: in interrupt mode 1 the acknowledgement of a maskable interrupt     *)
(* takes 13 clock() calls from the boundary at which it is accepted, and   *)
(* leaves PC = 0x0038, iff1 = iff2 = 0, SP two lower, and at SP the low    *)
(* and at SP + 1 the high byte of the PC the boundary had.                 *)
C7_Mode1Acknowledge ==
    (obs.op = "clock" /\ obs.boundary /\ obs.exc = "none")
        => LET done == obs.completed[1]
           IN  (done.kind = "ack" /\ ~done.nmi /\ done.mode = 1)
                   => /\ done.iff1_0 = 1
                      /\ obs.ticks = 13
                      /\ now - done.t0 = 13
                      /\ getattr(reg, "PC") = 56
                      /\ iff1 = 0 /\ iff2 = 0
                      /\ getattr(reg, "SP") = done.sp0 - 2
                      /\ MemRead(mem, getattr(reg, "SP")) = done.pc0 % 256
                      /\ MemRead(mem, getattr(reg, "SP") + 1) = done.pc0 \div 256

C7_Witness ==
    /\ obs.op = "clock" /\ obs.boundary /\ obs.exc = "none"
    /\ obs.completed[1].kind = "ack" /\ ~obs.completed[1].nmi /\ obs.completed[1].mode = 1
    /\ obs.completed[1].pc0 = 16
    /\ obs.completed[1].sp0 = 254
    /\ getattr(reg, "PC") = 56
    /\ MemRead(mem, 252) = 16

(* C8: when RETN (ED 45) finishes, SP is two higher than when it began,    *)
(* PC is the word popped and iff1 holds what iff2 held.                    *)
C8_RETNRestoresIff1 ==
    (obs.op = "clock" /\ obs.boundary /\ obs.exc = "none" /\ obs.accepted = <<>>)
        => LET done == obs.completed[1]
           IN  done.keys = << <<237>>, <<237, 69>> >>
                   => /\ getattr(reg, "SP") = done.sp0 + 2
                      /\ getattr(reg, "PC") = MemRead(mem, done.sp0) + 256 * MemRead(mem, done.sp0 + 1)
                      /\ iff1 = done.iff2_0

(* C9: the fetch of HALT (0x76) completes as any fetch does: the clock()   *)
(* call that decodes the byte raises nothing.                              *)
C9_HaltFetchCompletes ==
    (obs.op = "clock" /\ pipelines[1] # <<>> /\ pipelines[1][1].kind = "OCF"
                      /\ pipelines[1][1].inst = <<118>>)
        => obs.exc = "none"

(* C10: an instruction whose pipeline was not cut short takes, in clock()  *)
(* calls, 4 + extra for each opcode fetch plus OD = 3, MR = 3,             *)
(* MW = SR = SW = 3 + extra and IO(n) = n for the states its decode        *)
(* appended.                                                               *)
C10_DocumentedDuration ==
    (obs.op = "clock" /\ obs.boundary /\ obs.exc = "none")
        => LET done == obs.completed[1]
           IN  (done.kind = "fetch" /\ ~done.truncated) => obs.ticks = done.planned

(***************************************************************************)
(* Properties of the instructions, checked on the driver of SpecRun.  At a *)
(* boundary obs.completed holds the record of the instruction that has     *)
(* just finished: where it started (pc0, sp0, reg0, mem0), the keys it     *)
(* decoded, whether its pipeline was cut short (truncated) and the         *)
(* instruction before it (prev); obs.ticks is the number of clock() calls  *)
(* it took.  Completed holds when an instruction has just finished and     *)
(* none of its clock() calls raised.                                       *)
(***************************************************************************)
Completed ==
    /\ obs.op = "clock" /\ obs.boundary /\ obs.exc = "none"
    /\ obs.completed # <<>> /\ ~obs.completed[1].failed

(* C11: a conditional instruction takes the reference count of T-states on *)
(* each path: RET cc 11 when it returns and 5 when it does not, CALL cc 17 *)
(* and 10, DJNZ 13 when it jumps and 8 when B reached zero, JR cc 12 and   *)
(* 7, JP cc 10 either way.                                                 *)
C11_ConditionalTiming ==
    Completed
        => LET done == obs.completed[1]
           IN  /\ done.keys \in { << <<192>> >>, << <<200>> >> }
                     => obs.ticks = IF done.truncated THEN 5 ELSE 11
               /\ done.keys \in { << <<196>> >>, << <<204>> >> }
                     => obs.ticks = IF done.truncated THEN 10 ELSE 17
               /\ done.keys = << <<16>> >>
                     => obs.ticks = IF done.truncated THEN 8 ELSE 13
               /\ done.keys \in { << <<32>> >>, << <<40>> >> }
                     => obs.ticks = IF done.truncated THEN 7 ELSE 12
               /\ done.keys \in { << <<194>> >>, << <<202>> >> }
                     => obs.ticks = 10

(* the keys an ED-prefixed instruction decodes *)
ED(opcode) == << <<237>>, <<237, opcode>> >>

(* C12: LDI, LDD, CPI and CPD take 16 T-states; LDIR, LDDR, CPIR and CPDR  *)
(* take 21 T-states for an iteration that sets PC back to repeat and 16    *)
(* for the iteration that ends the loop.                                   *)
C12_BlockTiming ==
    Completed
        => LET done == obs.completed[1]
           IN  /\ done.keys \in {ED(160), ED(161), ED(168), ED(169)} => obs.ticks = 16
               /\ done.keys \in {ED(176), ED(177), ED(184), ED(185)}
                     => obs.ticks = IF reg["PC"] = done.pc0 THEN 21 ELSE 16

(* a CPIR that ends its loop after an iteration that repeated *)
C12_Witness ==
    /\ Completed
    /\ obs.completed[1].keys = ED(177)
    /\ reg["PC"] = obs.completed[1].pc0 + 2
    /\ obs.ticks = 16
    /\ obs.completed[1].prev # <<>>
    /\ obs.completed[1].prev[1].keys = ED(177)

(* the first of the iterations of a repeating instruction: the earliest    *)
(* record reached through prev that decoded the same keys at the same PC   *)
RECURSIVE Origin(_)
Origin(rec) ==
    IF rec.prev # <<>> /\ rec.prev[1].kind = "fetch"
       /\ rec.prev[1].keys = rec.keys /\ rec.prev[1].pc0 = rec.pc0
    THEN Origin(rec.prev[1])
    ELSE rec

(* n bytes copied one at a time from hl upwards to de upwards *)
RECURSIVE CopiedUp(_, _, _, _)
CopiedUp(m, hl, de, n) ==
    IF n = 0 THEN m
    ELSE CopiedUp(MemWrite(m, de, MemRead(m, hl)), (hl + 1) % 65536, (de + 1) % 65536, n - 1)

(* C13: an iteration of LDIR that leaves BC nonzero sets PC back to the    *)
(* LDIR and the one that leaves BC = 0 moves PC past it; when the loop     *)
(* that started with BC = n >= 1 has ended, memory is what copying n bytes *)
(* in ascending order from the original HL to the original DE gives, HL    *)
(* and DE are n higher and BC = 0.                                         *)
C13_LDIRCopies ==
    (Completed /\ obs.completed[1].keys = ED(176)
               /\ getattr(Origin(obs.completed[1]).reg0, "BC") >= 1)
        => LET done == obs.completed[1]
               o    == Origin(obs.completed[1]).reg0
               n    == getattr(Origin(obs.completed[1]).reg0, "BC")
           IN  /\ reg["PC"] = IF getattr(reg, "BC") # 0 THEN done.pc0 ELSE done.pc0 + 2
               /\ getattr(reg, "BC") = 0
                     => /\ mem = CopiedUp(Origin(done).mem0, getattr(o, "HL"), getattr(o, "DE"), n)
                        /\ getattr(reg, "HL") = (getattr(o, "HL") + n) % 65536
                        /\ getattr(reg, "DE") = (getattr(o, "DE") + n) % 65536

(* an LDIR started with BC = 2 has ended and its second byte has arrived *)
C13_Witness ==
    /\ Completed
    /\ obs.completed[1].keys = ED(176)
    /\ getattr(reg, "BC") = 0
    /\ getattr(Origin(obs.completed[1]).reg0, "BC") = 2
    /\ getattr(Origin(obs.completed[1]).reg0, "DE") = 48
    /\ MemRead(mem, 49) = MemRead(Origin(obs.completed[1]).mem0, 34)
    /\ MemRead(mem, 49) # MemRead(Origin(obs.completed[1]).mem0, 49)

(* C14: after an iteration of CPIR or CPDR, PC is back on the instruction  *)
(* if and only if BC is not zero and the byte compared, the one HL pointed *)
(* at, differs from A; otherwise PC is past the instruction.               *)
C14_CompareRepeats ==
    (Completed /\ obs.completed[1].keys \in {ED(177), ED(185)})
        => LET done == obs.completed[1]
               again == /\ getattr(reg, "BC") # 0
                        /\ MemRead(done.mem0, getattr(done.reg0, "HL")) # done.reg0["A"]
           IN  reg["PC"] = IF again THEN done.pc0 ELSE done.pc0 + 2

(* a CPDR that stops on a match while BC is still nonzero, after an        *)
(* iteration that repeated                                                 *)
C14_Witness ==
    /\ Completed
    /\ obs.completed[1].keys = ED(185)
    /\ obs.completed[1].prev # <<>>
    /\ obs.completed[1].prev[1].keys = ED(185)
    /\ getattr(reg, "BC") # 0
    /\ MemRead(obs.completed[1].mem0, getattr(obs.completed[1].reg0, "HL")) = obs.completed[1].reg0["A"]
    /\ reg["PC"] = obs.completed[1].pc0 + 2

(* C15: CALL nn at address a run with SP = s leaves the high byte of a + 3 *)
(* at s - 1 and the low byte at s - 2, SP = s - 2 and PC = nn; a RET that  *)
(* runs next leaves PC = a + 3 and SP = s.                                 *)
C15_CallThenRet ==
    Completed
        => LET done == obs.completed[1]
           IN  /\ done.keys = << <<205>> >>
                     => /\ MemRead(mem, done.sp0 - 1) = Shr(done.pc0 + 3, 8)
                        /\ MemRead(mem, done.sp0 - 2) = BitAnd(done.pc0 + 3, 255)
                        /\ reg["SP"] = done.sp0 - 2
                        /\ reg["PC"] = MemRead(done.mem0, done.pc0 + 1)
                                         + 256 * MemRead(done.mem0, done.pc0 + 2)
               /\ (done.keys = << <<201>> >> /\ done.prev # <<>>
                                             /\ done.prev[1].keys = << <<205>> >>)
                     => /\ reg["PC"] = done.prev[1].pc0 + 3
                        /\ reg["SP"] = done.prev[1].sp0

(* the RET at 0x0010 has returned to the byte after a CALL at address 1 *)
C15_Witness ==
    /\ Completed
    /\ obs.completed[1].keys = << <<201>> >>
    /\ obs.completed[1].prev # <<>>
    /\ obs.completed[1].prev[1].keys = << <<205>> >>
    /\ obs.completed[1].prev[1].pc0 = 1
    /\ obs.completed[1].prev[1].sp0 = 256
    /\ reg["PC"] = 4
    /\ MemRead(mem, 254) = 4

(* the condition of the conditional instruction with key k does not hold   *)
(* on the registers r it starts on: NZ for 0xC0, 0xC4 and 0x20, Z for      *)
(* 0xC8, 0xCC and 0x28, and for DJNZ a B that the decrement brings to zero *)
NotSatisfied(k, r) ==
    CASE k \in { <<192>>, <<196>>, <<32>> } -> getflag(r, "Z") = 1
      [] k \in { <<200>>, <<204>>, <<40>> } -> getflag(r, "Z") = 0
      [] k = <<16>>                         -> r["B"] = 1

(* the bytes of the instruction with key k *)
Length(k) == IF k \in { <<192>>, <<200>> } THEN 1 ELSE IF k \in { <<196>>, <<204>> } THEN 3 ELSE 2

(* C16: when CALL cc, RET cc, JR cc or DJNZ runs with its condition not    *)
(* satisfied, the rest of its pipeline is cut and has no effect: when the  *)
(* instruction has finished SP and memory are what they were and PC is the *)
(* address of the next instruction in sequence.                            *)
C16_NotTakenHasNoEffect ==
    (Completed /\ Len(obs.completed[1].keys) = 1
               /\ obs.completed[1].keys[1] \in { <<192>>, <<200>>, <<196>>, <<204>>,
                                                  <<32>>, <<40>>, <<16>> }
               /\ NotSatisfied(obs.completed[1].keys[1], obs.completed[1].reg0))
        => LET done == obs.completed[1]
           IN  /\ done.truncated
               /\ reg["SP"] = done.sp0
               /\ mem = done.mem0
               /\ reg["PC"] = done.pc0 + Length(done.keys[1])

(* a CALL NZ at address 1 has finished with Z set *)
C16_Witness ==
    /\ Completed
    /\ obs.completed[1].keys = << <<196>> >>
    /\ getflag(obs.completed[1].reg0, "Z") = 1
    /\ obs.completed[1].pc0 = 1
    /\ obs.completed[1].truncated
    /\ reg["PC"] = 4

(* C17: for each pair rr of BC, DE, HL, AF, IX and IY, when POP rr has run *)
(* right after PUSH rr, rr and SP hold what they held before the PUSH.     *)
C17_PushPopRoundTrip ==
    Completed
        => LET done == obs.completed[1]
           IN  \A p \in PushPop :
                   (done.keys = p.pop /\ done.prev # <<>> /\ done.prev[1].keys = p.push)
                       => /\ getattr(reg, p.rr) = getattr(done.prev[1].reg0, p.rr)
                          /\ reg["SP"] = done.prev[1].sp0

(* PUSH IY ; POP IY has run with IY = 0x7603 and the stack wrapping below 0 *)
C17_Witness ==
    /\ Completed
    /\ obs.completed[1].keys = << <<253>>, <<253, 225>> >>
    /\ obs.completed[1].prev # <<>>
    /\ obs.completed[1].prev[1].keys = << <<253>>, <<253, 229>> >>
    /\ obs.completed[1].prev[1].sp0 = 0
    /\ obs.completed[1].prev[1].reg0["IY"] = 30211
    /\ reg["IY"] = 30211
    /\ reg["SP"] = 0

(* C18: a stack write decrements SP and then writes at the new SP: when    *)
(* PUSH rr that started with SP = s has finished, memory differs from what *)
(* it was only in the high byte of rr at s - 1 and the low byte at s - 2,  *)
(* and SP = s - 2.                                                         *)
C18_PushWritesBelowSP ==
    Completed
        => LET done == obs.completed[1]
           IN  \A p \in PushPop :
                   done.keys = p.push
                       => /\ mem = MemWrite(MemWrite(done.mem0, done.sp0 - 1,
                                                     Shr(getattr(done.reg0, p.rr), 8)),
                                            done.sp0 - 2, BitAnd(getattr(done.reg0, p.rr), 255))
                          /\ reg["SP"] = done.sp0 - 2

(* PUSH AF has finished with A = 0x76, F = 0x03 and SP = 0x0100 *)
C18_Witness ==
    /\ Completed
    /\ obs.completed[1].keys = << <<245>> >>
    /\ obs.completed[1].sp0 = 256
    /\ obs.completed[1].reg0["A"] = 118
    /\ MemRead(mem, 255) = 118
    /\ MemRead(mem, 254) = 3
    /\ reg["SP"] = 254

(* the instructions LD A,(IX+d) and LD A,(IY+d): their keys and index register *)
Indexed ==
    { [keys |-> << <<221>>, <<221, 126>> >>, index |-> "IX"],
      [keys |-> << <<253>>, <<253, 126>> >>, index |-> "IY"] }

(* the address LD A,(index+d) started as rec should read: the index        *)
(* register plus the third byte of the instruction taken as a signed byte  *)
IndexedAddress(rec, index) ==
    LET d == MemRead(rec.mem0, rec.pc0 + 2)
    IN  rec.reg0[index] + (IF d >= 128 THEN d - 256 ELSE d)

(* C19: the address LD A,(IX+d) and LD A,(IY+d) present to the bus is the  *)
(* index register plus the displacement byte taken as a signed value in    *)
(* -128..127; when the instruction has finished A holds the byte at that   *)
(* address, PC is 3 higher and 19 T-states have passed.                    *)
C19_SignedDisplacement ==
    \A x \in Indexed :
        /\ (cur.keys = x.keys /\ pipelines[1] # <<>> /\ pipelines[1][1].kind = "MR"
                              /\ pipelines[1][1].n >= 1)
               => pipelines[1][1].laddress = IndexedAddress(cur, x.index)
        /\ (Completed /\ obs.completed[1].keys = x.keys)
               => /\ reg["A"] = MemRead(obs.completed[1].mem0,
                                        IndexedAddress(obs.completed[1], x.index))
                  /\ reg["PC"] = obs.completed[1].pc0 + 3
                  /\ obs.ticks = 19

(* LD A,(IX-1) has finished with IX = 0x0020 and loaded the byte at 0x001F *)
C19_Witness ==
    /\ Completed
    /\ obs.completed[1].keys = << <<221>>, <<221, 126>> >>
    /\ obs.completed[1].reg0["IX"] = 32
    /\ MemRead(obs.completed[1].mem0, 2) = 255
    /\ reg["A"] = MemRead(mem, 31)
    /\ reg["A"] = 32
    /\ obs.ticks = 19

(* C20: a clock() call on an opcode fetch whose key, the prefix bytes and  *)
(* the byte fetched, has no decode entry raises                            *)
(* UnrecognisedInstructionError and leaves the registers alone: PC is the  *)
(* address of the byte fetched, past the prefix bytes consumed and no      *)
(* further.                                                                *)
C20_UnrecognisedInstruction ==
    [][ (/\ pipelines # <<>> /\ pipelines[1] # <<>>
         /\ pipelines[1][1].kind = "OCF" /\ ~pipelines[1][1].dead
         /\ pipelines[1][1].n = 2 /\ ~Recognised(pipelines[1][1].inst))
            => /\ obs'.exc = "UnrecognisedInstructionError"
               /\ reg' = reg
               /\ reg'["PC"] = pipelines[1][1].lPC
               /\ reg'["PC"] = cur.pc0 + Len(pipelines[1][1].prefix) ]_vars

(* the fetch of FD 76 at address 3 has raised with PC on the 0x76 *)
C20_Witness ==
    /\ obs.op = "clock"
    /\ obs.exc = "UnrecognisedInstructionError"
    /\ pipelines[1][1].inst = <<253, 118>>
    /\ pipelines[1][1].dead
    /\ cur.pc0 = 3
    /\ reg["PC"] = 4


(***************************************************************************)
(* The register file.                                                      *)
(***************************************************************************)
ByteNames ==
    {"A", "B", "C", "D", "E", "F", "H", "L", "I", "R",
     "_A", "_B", "_C", "_D", "_E", "_F", "_H", "_L"} \cup HighNames \cup LowNames

WordNames == {"IX", "IY", "SP", "PC"} \cup PairNames

Width(name) == IF name \in ByteNames THEN 8 ELSE 16

InWidth(name, value) == value >= 0 /\ value < Pow2(Width(name))

(* C21: after any register writes and executed instructions every register
   read as an N bit value lies in [0, 2^N): the 8 bit registers and the half
   views in 0..255, the 16 bit registers and the pairs, PC, SP, IX and IY
   included, in 0..65535. *)
C21_RegistersInRange == \A name \in RegisterNames : InWidth(name, getattr(reg, name))


RegWrite == obs.op = "write" /\ obs.name \in RegisterNames

(* C22: a write of a value outside the bit width of the register (negative,
   above 0xFF for an 8 bit register or half view, above 0xFFFF for a 16 bit
   register or pair) fails with ArithmeticError and stores nothing. *)
C22_OutOfRangeWriteFails ==
    (RegWrite /\ ~InWidth(obs.name, obs.value))
        => (obs.exc = "ArithmeticError" /\ reg = obs.before)

HighOf(name) == IF name \in PairNames THEN First(name) ELSE CHOOSE h \in HighNames : Whole(h) = name

LowOf(name) == IF name \in PairNames THEN Second(name) ELSE CHOOSE l \in LowNames : Whole(l) = name

(* C23: a pair or a 16 bit register set to v in [0, 2^16) has the high half
   (v >> 8) & 0xFF and the low half v & 0xFF and reads back as v: the halves
   are the two bytes of the value, high byte first. *)
C23_PairIsBigEndian ==
    (RegWrite /\ obs.name \in WordNames /\ obs.value \in 0..65535)
        => /\ obs.exc = "none"
           /\ getattr(reg, HighOf(obs.name)) = (obs.value \div 256) % 256
           /\ getattr(reg, LowOf(obs.name)) = obs.value % 256
           /\ getattr(reg, obs.name) = obs.value
           /\ getattr(reg, obs.name) =
                  256 * getattr(reg, HighOf(obs.name)) + getattr(reg, LowOf(obs.name))

C23_Witness ==
    /\ RegWrite /\ obs.name = "BC" /\ obs.value = 21930
    /\ obs.before["B"] = 187 /\ obs.before["C"] = 204
    /\ reg["B"] = 85 /\ reg["C"] = 170

(* the stored registers behind a name, and the other half of a half *)
Aliases(name) ==
    IF name \in PairNames THEN {First(name), Second(name)}
    ELSE IF name \in HighNames \cup LowNames THEN {Whole(name)}
    ELSE {name}

Halves ==
    {<<"A", "F">>, <<"B", "C">>, <<"D", "E">>, <<"H", "L">>, <<"IXH", "IXL">>, <<"IYH", "IYL">>,
     <<"SPH", "SPL">>, <<"PCH", "PCL">>}

OtherHalves(name) == {h[2] : h \in {x \in Halves : x[1] = name}} \cup {h[1] : h \in {x \in Halves : x[2] = name}}

(* C24: a write of a value of the view's width changes only the registers
   the view aliases: the other half of a written half keeps its bits, and
   no shadow register and no unrelated register changes. *)
C24_WriteFrame ==
    (RegWrite /\ InWidth(obs.name, obs.value))
        => /\ obs.exc = "none"
           /\ getattr(reg, obs.name) = obs.value
           /\ \A r \in StoredRegisters \ Aliases(obs.name) : reg[r] = obs.before[r]
           /\ \A h \in OtherHalves(obs.name) : getattr(reg, h) = getattr(obs.before, h)

C24_Witness ==
    /\ RegWrite /\ obs.name = "IXL" /\ obs.value = 90
    /\ obs.before["IX"] = 4660
    /\ reg["IX"] = 4698
    /\ getattr(reg, "IXH") = 18

Exchanged(before, after, names) ==
    /\ \A r \in names : after[r] = before["_" \o r] /\ after["_" \o r] = before[r]
    /\ \A r \in StoredRegisters \ (names \cup {"_" \o n : n \in names}) : after[r] = before[r]

(* C25: ex exchanges exactly A and F with A' and F', exx exchanges exactly
   B, C, D, E, H, L with their primed registers, neither changes any other
   register, and ex after ex, and exx after exx, give back the register
   file the first of the two was applied to. *)
C25_Exchanges ==
    [][/\ obs'.op = "ex" => Exchanged(reg, reg', {"A", "F"})
       /\ obs'.op = "exx" => Exchanged(reg, reg', {"B", "C", "D", "E", "H", "L"})
       /\ (obs.op = "ex" /\ obs'.op = "ex") => reg' = obs.before
       /\ (obs.op = "exx" /\ obs'.op = "exx") => reg' = obs.before]_vars

C25_Witness ==
    /\ obs.op = "exx" /\ now = 2
    /\ reg["_B"] = 2 /\ reg["B"] = 187 /\ reg["A"] = 170
    /\ obs.before["B"] = 2 /\ obs.before["_B"] = 187 /\ obs.before["A"] = 170

Bit(x, b) == (x \div Pow2(b)) % 2

BitOfFlag ==
    [n \in FlagNames |->
        CASE n = "S" -> 7 [] n = "Z" -> 6 [] n = "5" -> 5 [] n = "H" -> 4 [] n = "3" -> 3
          [] n \in {"P", "V"} -> 2 [] n = "N" -> 1 [] n = "C" -> 0]

FlagCall == obs.op \in {"setflag", "resetflag"} /\ obs.name \in FlagNames /\ obs.before["F"] \in 0..255

(* C26: setflag(x) and resetflag(x) change exactly the bit of F assigned to
   x (S=7, Z=6, 5=5, H=4, 3=3, P/V=2, N=1, C=0) and nothing else, getflag(x)
   returns that bit, and P and V read the same bit. *)
C26_FlagFrame ==
    FlagCall
        => /\ obs.exc = "none"
           /\ Bit(reg["F"], BitOfFlag[obs.name]) = (IF obs.op = "setflag" THEN 1 ELSE 0)
           /\ \A b \in (0..7) \ {BitOfFlag[obs.name]} : Bit(reg["F"], b) = Bit(obs.before["F"], b)
           /\ reg["F"] \in 0..255
           /\ \A r \in StoredRegisters \ {"F"} : reg[r] = obs.before[r]
           /\ getflag(reg, obs.name) = Bit(reg["F"], BitOfFlag[obs.name])
           /\ getflag(reg, "P") = getflag(reg, "V")

C26_Witness ==
    /\ FlagCall /\ obs.op = "resetflag" /\ obs.name = "V"
    /\ obs.before["F"] = 244 /\ reg["F"] = 240
    /\ getflag(obs.before, "P") = 1 /\ getflag(reg, "P") = 0


(***************************************************************************)
(* The flags of the arithmetic, logical, rotate, shift and BIT             *)
(* instructions.                                                           *)
(***************************************************************************)
Signed(x) == IF x >= 128 THEN x - 256 ELSE x

(* a one byte instruction, and an instruction of the CB page, has finished *)
Finished(k) == Completed /\ obs.completed[1].keys = << <<k>> >>

FinishedCB(k) == Completed /\ obs.completed[1].keys = << <<203>>, <<203, k>> >>

(* the operand register of an opcode as the instruction found it *)
Operand(k) == obs.completed[1].reg0[Register(IF k < 64 THEN k \div 8 ELSE k % 8)]

OperandCB(k) == obs.completed[1].reg0[Register(k % 8)]

CarryIn == Bit(obs.completed[1].reg0["F"], 0)

(* the result of an 8 bit arithmetic instruction on its operands as signed bytes *)
SignedResult(k) ==
    CASE k < 64 /\ k % 8 = 4 -> Signed(Operand(k)) + 1
      [] k < 64 /\ k % 8 = 5 -> Signed(Operand(k)) - 1
      [] k \in 128..135 -> Signed(obs.completed[1].reg0["A"]) + Signed(Operand(k))
      [] k \in 136..143 -> Signed(obs.completed[1].reg0["A"]) + Signed(Operand(k)) + CarryIn
      [] k \in 152..159 -> Signed(obs.completed[1].reg0["A"]) - Signed(Operand(k)) - CarryIn
      [] OTHER -> Signed(obs.completed[1].reg0["A"]) - Signed(Operand(k))

(* C27: after ADD, ADC, SUB, SBC, CP, INC and DEC on 8 bit operands the
   P/V flag is 1 exactly when the operation overflows in two's complement,
   that is when the operands taken as signed bytes give a result outside
   -128..127. *)
C27_OverflowFlag ==
    \A k \in ArithmeticKeys \ (160..183) :
        Finished(k) => (Bit(reg["F"], 2) = 1 <=> SignedResult(k) \notin -128..127)

LogicalBit(k, x, y) ==
    CASE k \in 160..167 -> x * y
      [] k \in 168..175 -> (x + y) % 2
      [] k \in 176..183 -> IF x + y > 0 THEN 1 ELSE 0

Ones(x) == Cardinality({i \in 0..7 : Bit(x, i) = 1})

(* C28: after AND, OR and XOR the accumulator holds the bitwise result of
   the two operands and the P flag is 1 exactly when the low byte of that
   result has an even number of 1 bits. *)
C28_LogicalParity ==
    \A k \in 160..183 :
        Finished(k)
            => /\ \A i \in 0..7 :
                     Bit(reg["A"], i) = LogicalBit(k, Bit(obs.completed[1].reg0["A"], i), Bit(Operand(k), i))
               /\ reg["A"] \in 0..255
               /\ Bit(reg["F"], 2) = 1 <=> Ones(reg["A"]) % 2 = 0

(* XOR B of 0x0F and 0x01 leaves 0x0E, three 1 bits, and clears P *)
C28_Witness ==
    /\ Finished(168)
    /\ obs.completed[1].reg0["A"] = 15 /\ obs.completed[1].reg0["B"] = 1
    /\ obs.completed[1].reg0["F"] = 255
    /\ reg["A"] = 14 /\ Bit(reg["F"], 2) = 0

(* the bit a rotate or shift of the CB page moves out: bit 7 to the left
   (RLC, RL, SLA, SLL), bit 0 to the right (RRC, RR, SRA, SRL) *)
MovedOut(k) == IF (k \div 8) \in {0, 2, 4, 6} THEN Bit(OperandCB(k), 7) ELSE Bit(OperandCB(k), 0)

(* C29: every rotate and shift of the CB page sets S, Z, P (parity) and
   the bits 5 and 3 of F from its result, clears H and N and sets C to the
   bit rotated or shifted out. *)
C29_RotateFlags ==
    \A k \in {x \in 0..63 : x % 8 # 6} :
        FinishedCB(k)
            => /\ Bit(reg["F"], 7) = Bit(reg[Register(k % 8)], 7)
               /\ Bit(reg["F"], 6) = 1 <=> reg[Register(k % 8)] = 0
               /\ Bit(reg["F"], 2) = 1 <=> Ones(reg[Register(k % 8)]) % 2 = 0
               /\ Bit(reg["F"], 5) = Bit(reg[Register(k % 8)], 5)
               /\ Bit(reg["F"], 3) = Bit(reg[Register(k % 8)], 3)
               /\ Bit(reg["F"], 4) = 0
               /\ Bit(reg["F"], 1) = 0
               /\ Bit(reg["F"], 0) = MovedOut(k)

(* C30: BIT n on a register sets Z to the complement of bit n of the
   operand, H to 1, N to 0 and P/V to Z, sets S only when n = 7 and the bit
   is set, copies the bits 5 and 3 of the operand to the bits 5 and 3 of F
   and leaves C and the operand as they were. *)
C30_BitFlags ==
    \A k \in {x \in 64..127 : x % 8 # 6} :
        FinishedCB(k)
            => /\ Bit(reg["F"], 6) = 1 - Bit(OperandCB(k), (k - 64) \div 8)
               /\ Bit(reg["F"], 4) = 1
               /\ Bit(reg["F"], 1) = 0
               /\ Bit(reg["F"], 2) = Bit(reg["F"], 6)
               /\ Bit(reg["F"], 7) = 1 <=> ((k - 64) \div 8 = 7 /\ Bit(OperandCB(k), 7) = 1)
               /\ Bit(reg["F"], 5) = Bit(OperandCB(k), 5)
               /\ Bit(reg["F"], 3) = Bit(OperandCB(k), 3)
               /\ Bit(reg["F"], 0) = CarryIn
               /\ reg[Register(k % 8)] = OperandCB(k)

(***************************************************************************)
(* The accumulator instructions NEG, CCF, SCF, CPL and DAA.                *)
(***************************************************************************)
FinishedED(k) == Completed /\ obs.completed[1].keys = << <<237>>, <<237, k>> >>

(* the accumulator and the flags as the finished instruction found them *)
WasA == obs.completed[1].reg0["A"]

WasF == obs.completed[1].reg0["F"]

(* C31: NEG replaces A with (0 - A) mod 256 with the flags of a subtraction
   from zero: S and Z from the result, H the borrow out of bit 4, N = 1,
   P/V = 1 exactly when A was 0x80 before and C = 1 exactly when A was not
   zero before. *)
C31_Negate ==
    FinishedED(68)
        => /\ reg["A"] = (0 - WasA) % 256
           /\ Bit(reg["F"], 7) = Bit(reg["A"], 7)
           /\ Bit(reg["F"], 6) = 1 <=> reg["A"] = 0
           /\ Bit(reg["F"], 4) = 1 <=> WasA % 16 # 0
           /\ Bit(reg["F"], 2) = 1 <=> WasA = 128
           /\ Bit(reg["F"], 1) = 1
           /\ Bit(reg["F"], 0) = 1 <=> WasA # 0

(* S, Z and P/V are bits 7, 6 and 2 of F *)
KeepsSZP == \A b \in {7, 6, 2} : Bit(reg["F"], b) = Bit(WasF, b)

(* C32: CCF complements C, sets H to the old C and clears N; SCF sets C,
   clears H and N; both copy bits 5 and 3 of the flags from A and leave S,
   Z and P/V as they were. *)
C32_CarryFlag ==
    /\ Finished(63)
          => /\ Bit(reg["F"], 0) = 1 - Bit(WasF, 0)
             /\ Bit(reg["F"], 4) = Bit(WasF, 0)
             /\ Bit(reg["F"], 1) = 0
             /\ Bit(reg["F"], 5) = Bit(reg["A"], 5)
             /\ Bit(reg["F"], 3) = Bit(reg["A"], 3)
             /\ KeepsSZP
             /\ reg["A"] = WasA
    /\ Finished(55)
          => /\ Bit(reg["F"], 0) = 1
             /\ Bit(reg["F"], 4) = 0
             /\ Bit(reg["F"], 1) = 0
             /\ Bit(reg["F"], 5) = Bit(reg["A"], 5)
             /\ Bit(reg["F"], 3) = Bit(reg["A"], 3)
             /\ KeepsSZP
             /\ reg["A"] = WasA

(* C33: CPL replaces A with its bitwise complement, sets H and N, leaves
   C, Z, S and P/V as they were and copies bits 5 and 3 of the flags from
   the new A. *)
C33_Complement ==
    Finished(47)
        => /\ reg["A"] = 255 - WasA
           /\ Bit(reg["F"], 4) = 1
           /\ Bit(reg["F"], 1) = 1
           /\ Bit(reg["F"], 0) = Bit(WasF, 0)
           /\ KeepsSZP
           /\ Bit(reg["F"], 5) = Bit(reg["A"], 5)
           /\ Bit(reg["F"], 3) = Bit(reg["A"], 3)

(* the adjustment of DAA: 0x06 and 0x60 as the flags and A before call for *)
Adjustment(A, C, H, N) ==
    (IF (N = 0 /\ A % 16 > 9) \/ H = 1 THEN 6 ELSE 0)
    + (IF (N = 0 /\ (A > 153 \/ C = 1)) \/ (N = 1 /\ C = 1) THEN 96 ELSE 0)

(* C34: DAA adds the adjustment to A when N = 0 and subtracts it when
   N = 1, modulo 256, and sets S, Z and P from the result. *)
C34_DecimalAdjust ==
    Finished(39)
        => /\ reg["A"] = (IF Bit(WasF, 1) = 0
                          THEN WasA + Adjustment(WasA, Bit(WasF, 0), Bit(WasF, 4), 0)
                          ELSE WasA - Adjustment(WasA, Bit(WasF, 0), Bit(WasF, 4), 1)) % 256
           /\ Bit(reg["F"], 7) = Bit(reg["A"], 7)
           /\ Bit(reg["F"], 6) = 1 <=> reg["A"] = 0
           /\ Bit(reg["F"], 2) = 1 <=> Ones(reg["A"]) % 2 = 0

(* the registers SUB r would leave on the registers CP r (opcode k) found *)
Subtracted(k) ==
    RunEach(decode_instruction(<<k - 40>>).actions,
            [reg |-> obs.completed[1].reg0, kwargs |-> <<>>, pipeline |-> <<>>,
             mem |-> obs.completed[1].mem0, iff2 |-> obs.completed[1].iff2_0, exc |-> "none"],
            <<>>).reg

(* C37: CP s leaves S, Z, H, P/V, N and C exactly as SUB s on the same A
   and s leaves them, H being the borrow between bits 3 and 4, and leaves
   A unchanged. *)
C37_CompareAsSubtract ==
    \A k \in ArithmeticKeys \cap (184..191) :
        Finished(k)
            => /\ \A b \in {7, 6, 4, 2, 1, 0} : Bit(reg["F"], b) = Bit(Subtracted(k)["F"], b)
               /\ Bit(reg["F"], 4) = 1 <=> WasA % 16 < Operand(k) % 16
               /\ reg["A"] = WasA

(***************************************************************************)
(* The T-state on which a machine state acts.                              *)
(***************************************************************************)
(* a clock() call that no head state concluded in: every pipeline keeps its
   states and its head has served one more call *)
MidState ==
    /\ now' = now + 1
    /\ obs'.exc = "none"
    /\ Len(pipelines') = Len(pipelines)
    /\ \A i \in 1..Len(pipelines) :
          /\ Len(pipelines'[i]) = Len(pipelines[i])
          /\ pipelines'[i][1].kind = pipelines[i][1].kind
          /\ pipelines'[i][1].n = pipelines[i][1].n + 1

(* C35: a machine state changes the registers and the memory on its final
   T-state only: a clock() call that is not the last call of the state it
   clocks leaves the registers and the memory as they were. *)
C35_EffectsOnFinalTState == [][MidState => reg' = reg /\ mem' = mem]_vars

(***************************************************************************)
(* The addresses given to the memory bus.                                  *)
(***************************************************************************)
(* C36: every address given to the memory bus is taken modulo 2^16: a
   fetch, an operand read, a stack access or an indexed access that runs
   past 0xFFFF or below 0 goes on at the wrapped address, no clock() call
   fails on it and no byte outside 0 .. 0xFFFF is touched. *)
C36_AddressesWrap ==
    /\ obs.exc # "IndexError"
    /\ DOMAIN mem \subseteq 0..(MemSize - 1)

(***************************************************************************)
(* What clock() returns and what it can raise.                             *)
(***************************************************************************)
(* the pipelines as the end of an instruction or of an acknowledge leaves
   them: the one pipeline scheduled at the boundary, no state of it clocked *)
AtInstructionBoundary ==
    \/ pipelines = << <<OCF>> >>
    \/ \E nmi \in BOOLEAN, ack \in Acks :
          pipelines = <<interrupt_response(interrupt_mode, reg["I"], nmi, ack)>>

(* C38: clock() returns 0 exactly on the calls that complete an instruction
   or an interrupt acknowledge, and on every other call the positive number
   of T-states the current instruction has taken so far. *)
C38_ZeroAtInstructionEnd ==
    obs.op = "clock" /\ obs.exc = "none"
        => /\ obs.rv = 0 <=> AtInstructionBoundary
           /\ obs.rv # 0 => obs.rv > 0 /\ (~cur.failed => obs.rv = now - cur.t0)

(* the call that ends a maskable acknowledge in mode 1 returns 0, after
   calls that returned 1 .. 12 *)
C38_Witness ==
    /\ obs.op = "clock" /\ obs.exc = "none" /\ obs.rv = 0
    /\ obs.completed # <<>> /\ obs.completed[1].kind = "ack" /\ ~obs.completed[1].failed
    /\ now - obs.completed[1].t0 = 13
    /\ pipelines = << <<OCF>> >>

(* C39: no sequence of clock() and interrupt() calls makes clock() raise
   CPUStalled or the exception of a missing processable interrupt: int is
   set only while pending_interrupts holds a request, and a boundary always
   schedules a pipeline. *)
C39_NeverStalls ==
    /\ obs.exc \notin {"CPUStalled", "Exception"}
    /\ int => pending_interrupts # <<>>
    /\ pipelines # <<>>

(* an interrupt is latched when the instruction ends: the boundary takes the
   request, clears int and schedules the acknowledge *)
C39_Witness ==
    /\ obs.op = "clock" /\ obs.boundary /\ obs.exc = "none"
    /\ obs.accepted # <<>> /\ ~int /\ pending_interrupts = <<>>
    /\ cur.kind = "ack"

(***************************************************************************)
(* The scratch values a state hands to the next one.                       *)
(***************************************************************************)
(* the 16 bit operand that follows the opcode of the finished instruction *)
OperandWord ==
    MemRead(obs.completed[1].mem0, obs.completed[1].pc0 + 1)
    + 256 * MemRead(obs.completed[1].mem0, obs.completed[1].pc0 + 2)

(* C40: scratch values pass between the states of one instruction only.
   The scratch map of a state that concludes goes to the next state of its
   pipeline, so the second operand fetch of LD BC,nn and LD SP,nn combines
   its byte with the byte the first one kept; a state waiting behind the
   head holds nothing, and the pipeline scheduled at an instruction
   boundary starts with empty scratch maps, so nothing an earlier
   instruction kept is there to be read. *)
C40_ScratchWithinInstruction ==
    /\ \A i \in 1..Len(pipelines) : \A j \in 2..Len(pipelines[i]) : pipelines[i][j].kwargs = <<>>
    /\ AtInstructionBoundary => pipelines[1][1].kwargs = <<>>
    /\ Completed /\ obs.completed[1].keys = << <<1>> >> => getattr(reg, "BC") = OperandWord
    /\ Completed /\ obs.completed[1].keys = << <<49>> >> => reg["SP"] = OperandWord

(* LD BC,0200H has finished: BC holds both operand bytes and the fetch of
   the next instruction starts with nothing *)
C40_Witness ==
    /\ Completed /\ obs.completed[1].keys = << <<1>> >>
    /\ getattr(reg, "BC") = 512
    /\ pipelines = << <<OCF>> >>

====
